---------------------------- MODULE Spec2Model ----------------------------
(***************************************************************************)
(* A model of borevitzlab/3D-tools: the forest point-cloud pipeline.       *)
(*                                                                         *)
(*   src/src/forestutils.py    MapObj (grid, ground smoothing, labeling)   *)
(*   src/src/pointcloudfile.py read / write / IncrementalWriter            *)
(*   src/pointcloudfile.py     the earlier read / write / save_to_disk     *)
(*   src/utm_convert.py        UTM_coords                                  *)
(*   src/forest-utils.py       the earlier MapObj with the memoised        *)
(*                             component map (update / trees)              *)
(*                                                                         *)
(* Lengths and heights are integers in units of 0.05 m, so the default     *)
(* cellsize 0.1 is 2, grounddepth 0.2 is 4 and slicedepth 0.6 is 12.       *)
(* A dict is a function on its key set; where the code iterates a dict,    *)
(* the insertion order is kept beside it as a sequence of keys.            *)
(***************************************************************************)
EXTENDS Integers, Sequences, FiniteSets, TLC

VARIABLES
    pc,                 \* position of the running program
    density,            \* MapObj.density          : key -> point count
    ground,             \* MapObj.ground           : key -> lowest z
    canopy,             \* MapObj.canopy           : key -> highest z
    filtered_density,   \* MapObj.filtered_density : key -> count
    keyorder,           \* insertion order of the keys of MapObj.density
    trees,              \* MapObj.trees            : fine key -> tree id
    impl,               \* which program runs: "forestutils" or "forest-utils"
    neighbor_order,     \* forest-utils.py: the order the interpreter iterates
                        \* the set of neighbour offsets in
    count,              \* forest-utils.py CloudAttributes.count
    components_counted_at,  \* forest-utils.py MapObj._components_counted_at
    components_map,     \* forest-utils.py MapObj._components_map
    ingested,           \* history: the points read so far, in order
    smoothed,           \* history: the keys whose ground smooth_ground assigned
    cc_labels,          \* history: the CoarseCell labels before back-projection
    lastread,           \* history: what the last read of `trees` returned
    unread,             \* history: a point was added since the last read
    codec,              \* which pointcloudfile.py runs
    cloud,              \* write(cloud, fname, utm_coords): the points
    utm_coords,         \* write(cloud, fname, utm_coords): the offset
    writer,             \* the IncrementalWriter of write(): its fields
    disk,               \* the file fname on disk
    readback,           \* what read(fname) gave: the exception, the points
    colours,            \* MapObj.colours : key -> the sums of its colour channels
    sparse,             \* the sparse cloud file save_sparse_cloud wrote
    tree_records,       \* what all_trees yielded, in order
    smooth_run,         \* history of the calls of smooth_ground on `ground`
    writer_log,         \* history of the writer: the points appended to it
                        \* and the finalisations begun and completed
    files,              \* the .ply files and offset files of an export on disk
    offset,             \* what the offset lookup of a file returned
    geodetic            \* utm_convert.py: the coordinates given and converted

gridvars == <<density, ground, canopy, filtered_density, keyorder>>

memovars == <<count, components_counted_at, components_map, lastread, unread>>

codecvars == <<codec, cloud, utm_coords, writer, disk, readback>>

analysisvars == <<colours, sparse, tree_records>>

smoothvars == <<smooth_run>>

filevars == <<writer_log, files, offset>>

geovars == <<geodetic>>

mapvars == <<density, ground, canopy, filtered_density, keyorder, trees, impl,
             neighbor_order, count, components_counted_at, components_map, ingested,
             smoothed, cc_labels, lastread, unread>>

vars == <<pc, density, ground, canopy, filtered_density, keyorder, trees, impl,
          neighbor_order,
          count, components_counted_at, components_map, ingested, smoothed,
          cc_labels, lastread, unread, codec, cloud, utm_coords, writer, disk,
          readback, colours, sparse, tree_records, smooth_run,
          writer_log, files, offset, geodetic>>

-----------------------------------------------------------------------------
(* Program constants (argparse defaults), in units of 0.05 m.              *)

cellsize == 2

grounddepth == 4

slicedepth == 12

joinedcells == 3

-----------------------------------------------------------------------------
(* Helpers for dicts and sequences.                                        *)

EmptyMap == << >>

\* forestutils.py iterates its neighbour offsets as a tuple: no set order.
NoOrder == << >>

\* Python's None where a tuple is expected, no writer object, no file of
\* that name, and no read made.
NoneUtm == << >>

NoWriter == [alive |-> FALSE, count |-> 0, temp_storage |-> << >>, utm_coords |-> << >>,
             max_size |-> 0, rolled |-> FALSE]

NoFile == [exists |-> FALSE, head |-> << >>, body |-> << >>]

NoReadback == [raised |-> "", points |-> << >>]

\* No pointcloudfile call is in progress.
CodecIdle ==
    /\ codec = "none"
    /\ cloud = << >>
    /\ utm_coords = NoneUtm
    /\ writer = NoWriter
    /\ disk = NoFile
    /\ readback = NoReadback

\* No sparse cloud is written and no analysis of the map is in progress.
NoSparse == [written |-> FALSE, points |-> << >>]

AnalysisIdle ==
    /\ colours = EmptyMap
    /\ sparse = NoSparse
    /\ tree_records = << >>

\* smooth_ground is not called on its own.
NoSmoothRun ==
    [calls |-> 0, raised |-> "", problematic |-> {}, before |-> << >>,
     passes |-> 0, start |-> {}, trace |-> << >>, detected |-> {}]

SmoothIdle == smooth_run = NoSmoothRun

\* No coordinate conversion is in progress.
NoGeodetic == << >>

GeoIdle == geodetic = NoGeodetic

\* No writer has been used, no export is on disk, no offset was looked up.
NoWriterLog == [appended |-> << >>, begun |-> 0, completed |-> 0, raised |-> ""]

NoFiles == << >>

NoOffset == [raised |-> "", value |-> << >>]

FilesIdle ==
    /\ files = NoFiles
    /\ offset = NoOffset

\* Python's None where a count is expected: equal to no count.
None == -1

\* No read of the component map has happened yet.
NoRead == [read |-> FALSE, recomputed |-> FALSE, unread |-> FALSE, map |-> << >>]

Put(f, k, v) == [x \in (DOMAIN f) \cup {k} |-> IF x = k THEN v ELSE f[x]]

Range(s) == {s[i] : i \in DOMAIN s}

SetMin(S) == CHOOSE m \in S : \A s \in S : m <= s

SetMax(S) == CHOOSE m \in S : \A s \in S : m >= s

-----------------------------------------------------------------------------
(* src/src/forestutils.py: coords, MapObj.update_spatial (the read loop).  *)

\* A seeded bug: int(v / cellsize), which rounds towards zero.
floor_div_trunc(v, d) == IF v >= 0 THEN v \div d ELSE -((-v) \div d)

\* math.floor(v / cellsize): \div rounds towards minus infinity.
floor_div(v, d) == v \div d

coords(pos) == <<floor_div(pos.x, cellsize), floor_div(pos.y, cellsize)>>

\* The grid as one value: what the body of the read loop reads and writes.
Grid(d, g, c, f, o) ==
    [density |-> d, ground |-> g, canopy |-> c, filtered_density |-> f, keyorder |-> o]

EmptyGrid == Grid(EmptyMap, EmptyMap, EmptyMap, EmptyMap, << >>)

\* A seeded bug: a later point overwrites the canopy whatever its height.
update_spatial_point_lastwins(m, p) ==
    LET idx == coords(p) IN
    IF idx \notin DOMAIN m.density
    THEN Grid(Put(m.density, idx, 1), Put(m.ground, idx, p.z), Put(m.canopy, idx, p.z),
              Put(m.filtered_density, idx, 1), Append(m.keyorder, idx))
    ELSE Grid([m.density EXCEPT ![idx] = @ + 1],
              IF m.ground[idx] > p.z THEN [m.ground EXCEPT ![idx] = p.z] ELSE m.ground,
              [m.canopy EXCEPT ![idx] = p.z],
              m.filtered_density, m.keyorder)

\* A seeded bug: the two comparisons the wrong way round.
update_spatial_point_swapped(m, p) ==
    LET idx == coords(p) IN
    IF idx \notin DOMAIN m.density
    THEN Grid(Put(m.density, idx, 1), Put(m.ground, idx, p.z), Put(m.canopy, idx, p.z),
              Put(m.filtered_density, idx, 1), Append(m.keyorder, idx))
    ELSE Grid([m.density EXCEPT ![idx] = @ + 1],
              IF m.ground[idx] < p.z THEN [m.ground EXCEPT ![idx] = p.z] ELSE m.ground,
              IF ~(m.ground[idx] < p.z) /\ m.canopy[idx] > p.z
                  THEN [m.canopy EXCEPT ![idx] = p.z] ELSE m.canopy,
              m.filtered_density, m.keyorder)

\* One iteration of the loop of update_spatial, for the point p.
update_spatial_point(m, p) ==
    LET idx == coords(p) IN
    IF idx \notin DOMAIN m.density
    THEN Grid(Put(m.density, idx, 1), Put(m.ground, idx, p.z), Put(m.canopy, idx, p.z),
              Put(m.filtered_density, idx, 1), Append(m.keyorder, idx))
    ELSE Grid([m.density EXCEPT ![idx] = @ + 1],
              IF m.ground[idx] > p.z THEN [m.ground EXCEPT ![idx] = p.z] ELSE m.ground,
              IF ~(m.ground[idx] > p.z) /\ m.canopy[idx] < p.z
                  THEN [m.canopy EXCEPT ![idx] = p.z] ELSE m.canopy,
              m.filtered_density, m.keyorder)

CurrentGrid == Grid(density, ground, canopy, filtered_density, keyorder)

SetGrid(m) ==
    /\ density' = m.density
    /\ ground' = m.ground
    /\ canopy' = m.canopy
    /\ filtered_density' = m.filtered_density
    /\ keyorder' = m.keyorder

-----------------------------------------------------------------------------
(* The whole read loop of update_spatial over a point sequence, from an    *)
(* empty MapObj.                                                           *)

RECURSIVE ingest_all(_)
ingest_all(points) ==
    IF points = << >> THEN EmptyGrid
    ELSE update_spatial_point(ingest_all(SubSeq(points, 1, Len(points) - 1)),
                              points[Len(points)])

-----------------------------------------------------------------------------
(* Specification SpecGrid: the first pass over a file of arbitrary points. *)

MaxPoints == 3

GridXs == {-1, 1}

GridYs == {0, 2}

GridZs == {0, 1, 2}

GridPoints == [x : GridXs, y : GridYs, z : GridZs]

InitGrid ==
    /\ pc = "read"
    /\ density = EmptyMap
    /\ ground = EmptyMap
    /\ canopy = EmptyMap
    /\ filtered_density = EmptyMap
    /\ keyorder = << >>
    /\ ingested = << >>
    /\ trees = EmptyMap
    /\ impl = "forestutils"
    /\ neighbor_order = NoOrder
    /\ count = 0
    /\ components_counted_at = None
    /\ components_map = EmptyMap
    /\ smoothed = {}
    /\ cc_labels = EmptyMap
    /\ lastread = NoRead
    /\ unread = TRUE
    /\ CodecIdle
    /\ AnalysisIdle
    /\ SmoothIdle
    /\ GeoIdle
    /\ writer_log = NoWriterLog
    /\ FilesIdle

\* update_spatial reads the next point of the file.
IngestSpatial ==
    /\ pc = "read"
    /\ Len(ingested) < MaxPoints
    /\ \E p \in GridPoints :
        /\ SetGrid(update_spatial_point(CurrentGrid, p))
        /\ ingested' = Append(ingested, p)
    /\ UNCHANGED <<filevars, smoothvars, geovars, analysisvars, codecvars, pc, trees, impl, neighbor_order, memovars, smoothed,
                   cc_labels>>

NextGrid == IngestSpatial

SpecGrid == InitGrid /\ [][NextGrid]_vars

-----------------------------------------------------------------------------
(* src/src/forestutils.py: neighbors, detect_issues, smooth_ground.        *)

\* The offsets (a, b) for a in (-1, 0, 1) for b in (-1, 0, 1) if a or b.
neighbor_offsets ==
    << <<-1, -1>>, <<-1, 0>>, <<-1, 1>>, <<0, -1>>, <<0, 1>>, <<1, -1>>, <<1, 0>>, <<1, 1>> >>

neighbors(key) ==
    [i \in 1..Len(neighbor_offsets) |->
        <<key[1] + neighbor_offsets[i][1], key[2] + neighbor_offsets[i][2]>>]

Abs(v) == IF v < 0 THEN -v ELSE v

\* A seeded bug: two steep neighbours are enough to flag a cell.
detect_issues_two(ground_dict, prior) ==
    {k \in prior :
        LET adjacent == {ground_dict[n] : n \in Range(neighbors(k)) \cap DOMAIN ground_dict} IN
        /\ ~(Cardinality(adjacent) < 6)
        /\ Cardinality({n \in adjacent : Abs(ground_dict[k] - n) > 2 * cellsize}) >= 2}

\* adjacent is a Python set of ground VALUES: equal values of two neighbours
\* are one element of it.
detect_issues(ground_dict, prior) ==
    {k \in prior :
        LET adjacent == {ground_dict[n] : n \in Range(neighbors(k)) \cap DOMAIN ground_dict} IN
        /\ ~(Cardinality(adjacent) < 6)
        /\ Cardinality({n \in adjacent : Abs(ground_dict[k] - n) > 2 * cellsize}) >= 3}

\* A seeded bug: the inner loop also rewrites the neighbours of the
\* problematic cells that are not problematic themselves.
smooth_pass_spills(ground_dict, problematic) ==
    [key \in DOMAIN ground_dict |->
        LET adjacent == {ground_dict[n] :
                            n \in (Range(neighbors(key)) \ problematic) \cap DOMAIN ground_dict} IN
        IF adjacent # {} /\ (key \in problematic \/ Range(neighbors(key)) \cap problematic # {})
        THEN SetMin(adjacent) + 2 * cellsize
        ELSE ground_dict[key]]

\* The inner loop of smooth_ground: every write goes to a problematic key and
\* every value read belongs to a key outside problematic, so the iteration
\* order of the set does not matter.
smooth_pass(ground_dict, problematic) ==
    [key \in DOMAIN ground_dict |->
        LET adjacent == {ground_dict[n] :
                            n \in (Range(neighbors(key)) \ problematic) \cap DOMAIN ground_dict} IN
        IF key \in problematic /\ adjacent # {}
        THEN SetMin(adjacent) + 2 * cellsize
        ELSE ground_dict[key]]

\* The keys the inner loop assigns in one pass.
pass_writes(ground_dict, problematic) ==
    {key \in problematic :
        (Range(neighbors(key)) \ problematic) \cap DOMAIN ground_dict # {}}

\* for _ in range(100)
smooth_passes == 100

\* The loop of smooth_ground with `remaining` passes to go.  problematic
\* only shrinks; once a pass leaves both it and the dict as they were, every
\* later pass repeats that pass, and the loop is cut short there.
RECURSIVE smooth_loop(_, _, _, _)
smooth_loop(ground_dict, prior, written, remaining) ==
    IF remaining = 0
    THEN [ground |-> ground_dict, problematic |-> prior, written |-> written]
    ELSE LET problematic == detect_issues(ground_dict, prior)
             smoother == smooth_pass(ground_dict, problematic)
             assigned == written \cup pass_writes(ground_dict, problematic) IN
         IF problematic = prior /\ smoother = ground_dict
         THEN [ground |-> smoother, problematic |-> problematic, written |-> assigned]
         ELSE smooth_loop(smoother, problematic, assigned, remaining - 1)

smooth_ground(ground_dict) ==
    smooth_loop(ground_dict, DOMAIN ground_dict, {}, smooth_passes)

-----------------------------------------------------------------------------
(* src/src/forestutils.py: connected_components, MapObj._tree_components.  *)

\* A stand-in for sys.getrecursionlimit(): the depth of expand at which
\* Python raises RecursionError (a RuntimeError).
RecursionLimit == 900

\* expand(old_key, com), from the i-th neighbour on, at recursion depth d.
\* The result is the dict and whether RecursionError is propagating.
RECURSIVE expand_from(_, _, _, _)
expand_from(old_key, com, i, d) ==
    IF d > RecursionLimit THEN [com |-> com, raised |-> TRUE]
    ELSE IF i > Len(neighbor_offsets) THEN [com |-> com, raised |-> FALSE]
    ELSE LET key == neighbors(old_key)[i] IN
         IF key \notin DOMAIN com                       \* com.get(key) is None: return
         THEN [com |-> com, raised |-> FALSE]
         ELSE IF com[key] = com[old_key]                \* continue
         THEN expand_from(old_key, com, i + 1, d)
         ELSE IF com[key] < com[old_key]
         THEN expand_from(old_key, [com EXCEPT ![old_key] = com[key]], i + 1, d)
         ELSE LET sub == expand_from(key, [com EXCEPT ![key] = com[old_key]], 1, d + 1) IN
              IF sub.raised THEN sub
              ELSE expand_from(old_key, sub.com, i + 1, d)

expand(old_key, com) == expand_from(old_key, com, 1, 1).com

\* for key in tuple(input_dict): try: expand(key, input_dict)
\*                               except RuntimeError: continue
RECURSIVE connected_components_from(_, _, _)
connected_components_from(com, order, i) ==
    IF i > Len(order) THEN com
    ELSE connected_components_from(expand(order[i], com), order, i + 1)

connected_components(com, order) == connected_components_from(com, order, 1)

\* A sequence without its repeated elements, first occurrences kept in order.
RECURSIVE dedup(_)
dedup(s) ==
    IF s = << >> THEN << >>
    ELSE LET front == dedup(SubSeq(s, 1, Len(s) - 1)) IN
         IF s[Len(s)] \in Range(front) THEN front ELSE Append(front, s[Len(s)])

cc_key(key) == <<floor_div(key[1], joinedcells), floor_div(key[2], joinedcells)>>

qualifies(m, key) == m.canopy[key] - m.ground[key] > slicedepth

\* The keys of key_scale_record in insertion order, and its values.
key_scale_order(m) ==
    LET Q(key) == qualifies(m, key)
        q == SelectSeq(m.keyorder, Q) IN
    dedup([i \in 1..Len(q) |-> cc_key(q[i])])

key_scale_record(m) ==
    [k \in Range(key_scale_order(m)) |->
        {key \in DOMAIN m.density : qualifies(m, key) /\ cc_key(key) = k}]

\* A seeded bug: every large key starts with the label 0.
initial_labels_zero(order) == [k \in Range(order) |-> 0]

\* {k: i for i, k in enumerate(tuple(key_scale_record))}
initial_labels(order) ==
    [k \in Range(order) |-> (CHOOSE i \in 1..Len(order) : order[i] = k) - 1]

\* The local dict `trees` of _tree_components after connected_components.
coarse_labels(m) ==
    connected_components(initial_labels(key_scale_order(m)), key_scale_order(m))

\* A seeded bug: every cell of a labelled CoarseCell is given its label.
back_project_all(m, labels) ==
    [s \in {key \in DOMAIN m.density : cc_key(key) \in DOMAIN labels} |-> labels[cc_key(s)]]

\* {s: trees[k] for k, v in key_scale_record.items() for s in v}
back_project(m, labels) ==
    LET rec == key_scale_record(m) IN
    [s \in UNION {rec[k] : k \in DOMAIN rec} |->
        labels[CHOOSE k \in DOMAIN rec : s \in rec[k]]]

tree_components(m) == back_project(m, coarse_labels(m))

-----------------------------------------------------------------------------
(* src/forest-utils.py: MapObj.update, _tree_components, _get_components,  *)
(* get_component_at.  Module constants in units of 0.05 m.                 *)

CELL_SIZE == 2

SLICE_DEPTH == 12

JOINED_CELLS == 4

v0_coords(pos) == <<floor_div(pos.x, CELL_SIZE), floor_div(pos.y, CELL_SIZE)>>

v0_update_point(m, p) ==
    LET idx == v0_coords(p) IN
    IF idx \notin DOMAIN m.density
    THEN Grid(Put(m.density, idx, 1), Put(m.ground, idx, p.z), Put(m.canopy, idx, p.z),
              m.filtered_density, Append(m.keyorder, idx))
    ELSE Grid([m.density EXCEPT ![idx] = @ + 1],
              IF m.ground[idx] > p.z THEN [m.ground EXCEPT ![idx] = p.z] ELSE m.ground,
              IF m.canopy[idx] < p.z THEN [m.canopy EXCEPT ![idx] = p.z] ELSE m.canopy,
              m.filtered_density, m.keyorder)

\* neighbors(key) iterates a set literal of eight offsets, six of them
\* distinct.  The order a set is iterated in is the interpreter's: the
\* orders below are the one CPython 3.11 gives inside neighbors(), the one
\* it gives for the bare literal, and the order the literal is written in.
v0_neighbor_orders ==
    { << <<0, 1>>, <<-1, -1>>, <<1, 1>>, <<1, -1>>, <<1, 0>>, <<0, -1>> >>,
      << <<0, 1>>, <<-1, -1>>, <<1, 0>>, <<1, 1>>, <<0, -1>>, <<1, -1>> >>,
      << <<1, 1>>, <<1, 0>>, <<1, -1>>, <<0, 1>>, <<0, -1>>, <<-1, -1>> >> }

v0_neighbors(key, offsets) ==
    [i \in 1..Len(offsets) |->
        <<key[1] + offsets[i][1], key[2] + offsets[i][2]>>]

RECURSIVE v0_expand_from(_, _, _, _, _)
v0_expand_from(old_key, com, i, d, offsets) ==
    IF d > RecursionLimit THEN [com |-> com, raised |-> TRUE]
    ELSE IF i > Len(offsets) THEN [com |-> com, raised |-> FALSE]
    ELSE LET key == v0_neighbors(old_key, offsets)[i] IN
         IF key \notin DOMAIN com
         THEN [com |-> com, raised |-> FALSE]
         ELSE IF com[key] = com[old_key]
         THEN v0_expand_from(old_key, com, i + 1, d, offsets)
         ELSE IF com[key] < com[old_key]
         THEN v0_expand_from(old_key, [com EXCEPT ![old_key] = com[key]], i + 1, d, offsets)
         ELSE LET sub == v0_expand_from(key, [com EXCEPT ![key] = com[old_key]], 1, d + 1,
                                        offsets) IN
              IF sub.raised THEN sub
              ELSE v0_expand_from(old_key, sub.com, i + 1, d, offsets)

RECURSIVE v0_expand_all(_, _, _, _)
v0_expand_all(com, order, i, offsets) ==
    IF i > Len(order) THEN com
    ELSE v0_expand_all(v0_expand_from(order[i], com, 1, 1, offsets).com, order, i + 1,
                       offsets)

v0_cc_key(key) == <<floor_div(key[1], JOINED_CELLS), floor_div(key[2], JOINED_CELLS)>>

\* non_ground is a set; the order it is iterated in is the interpreter's.
\* Here it is the order in which its elements were added: the files of
\* SpecMap hold their cells in every order, so every order of non_ground occurs.
v0_non_ground(m) ==
    LET Q(key) == m.canopy[key] - m.ground[key] > SLICE_DEPTH
        q == SelectSeq(m.keyorder, Q) IN
    dedup([i \in 1..Len(q) |-> v0_cc_key(q[i])])

\* A seeded bug: the labels are returned as they are.
v0_translate_identity(values) == [v \in values |-> v]

\* dict((v, k) for k, v in enumerate(set(com.values()))): a set of small
\* ints is iterated in increasing order.
v0_translate(values) ==
    [v \in values |-> Cardinality({w \in values : w < v})]

v0_tree_components(m, offsets) ==
    LET order == v0_non_ground(m)
        com == v0_expand_all(initial_labels(order), order, 1, offsets)
        translate == v0_translate({com[k] : k \in DOMAIN com}) IN
    [k \in DOMAIN com |-> translate[com[k]]]

\* What get_component_at returns for a point of the fine cell `key`, given
\* the component map: an id, or None.
NoTree == -1

v0_get_component_at(map, key) ==
    IF v0_cc_key(key) \in DOMAIN map THEN map[v0_cc_key(key)] ELSE NoTree

-----------------------------------------------------------------------------
(* Specification SpecMap: a MapObj is built from a file, the ground is     *)
(* smoothed and the tree components are labelled.  The files are drawn     *)
(* from two families: sparse files of up to MaxCells cells (tall cells     *)
(* that pass the slicedepth test and flat ones that do not), and a block   *)
(* of 3 x 3 cells whose centre may be a ground outlier.                    *)

MaxCells == 3

\* A point in the middle of the fine cell `key` at height z.
PointIn(key, z) == [x |-> key[1] * cellsize + 1, y |-> key[2] * cellsize + 1, z |-> z]

TallHeight == slicedepth + 1

\* The points of one cell: a tall cell has a point at 0 and one above slicedepth.
CellPoints(cell) ==
    IF cell.tall THEN <<PointIn(cell.key, 0), PointIn(cell.key, TallHeight)>>
    ELSE <<PointIn(cell.key, 0)>>

FineMain == {<<3 * i, 3 * j>> : i \in -1..2, j \in -1..0}

FineExtra == {<<1, 1>>, <<-2, -1>>}

CandidateCells ==
    [key : FineMain, tall : {TRUE}] \cup [key : FineExtra, tall : BOOLEAN]

RECURSIVE Flatten(_)
Flatten(ss) == IF ss = << >> THEN << >> ELSE Flatten(SubSeq(ss, 1, Len(ss) - 1)) \o ss[Len(ss)]

SparseFiles ==
    UNION {
        {Flatten([i \in 1..n |-> CellPoints(cells[i])]) :
            cells \in {c \in [1..n -> CandidateCells] :
                        \A i, j \in 1..n : i # j => c[i].key # c[j].key}}
        : n \in 0..MaxCells}

\* The block: the centre cell <<1, 1>> and its eight neighbours, in the order
\* of neighbors(); neighbour i holds one point at base + i * step.
BlockCentres == {<<0>>, <<0, 30>>, <<24>>, <<-40, 0>>}

BlockSlopes == {[base |-> 20, step |-> 1], [base |-> 0, step |-> 1],
                [base |-> 20, step |-> 0], [base |-> 0, step |-> 6]}

BlockMissing ==
    {{}} \cup {{i} : i \in 1..8} \cup {{1, 2, 3}}

BlockFile(centre, slope, missing) ==
    LET present == SelectSeq([i \in 1..8 |-> i], LAMBDA i : i \notin missing) IN
    [i \in 1..Len(centre) |-> PointIn(<<1, 1>>, centre[i])]
    \o [j \in 1..Len(present) |->
            PointIn(neighbors(<<1, 1>>)[present[j]], slope.base + present[j] * slope.step)]

BlockFiles ==
    {BlockFile(c, s, m) : c \in BlockCentres, s \in BlockSlopes, m \in BlockMissing}

RECURSIVE v0_ingest_all(_)
v0_ingest_all(points) ==
    IF points = << >> THEN EmptyGrid
    ELSE v0_update_point(v0_ingest_all(SubSeq(points, 1, Len(points) - 1)),
                         points[Len(points)])

InitMap ==
    \E file \in SparseFiles \cup BlockFiles, im \in {"forestutils", "forest-utils"} :
        LET m == IF im = "forestutils" THEN ingest_all(file) ELSE v0_ingest_all(file) IN
        /\ impl = im
        /\ neighbor_order \in (IF im = "forestutils" THEN {NoOrder}
                              ELSE v0_neighbor_orders)
        /\ pc = IF im = "forestutils" THEN "smooth" ELSE "ready"
        /\ density = m.density
        /\ ground = m.ground
        /\ canopy = m.canopy
        /\ filtered_density = m.filtered_density
        /\ keyorder = m.keyorder
        /\ ingested = file
        /\ trees = EmptyMap
        /\ count = IF im = "forestutils" THEN 0 ELSE Len(file)
        /\ components_counted_at = None
        /\ components_map = EmptyMap
        /\ smoothed = {}
        /\ cc_labels = EmptyMap
        /\ lastread = NoRead
        /\ unread = TRUE
        /\ CodecIdle
        /\ AnalysisIdle
        /\ SmoothIdle
        /\ GeoIdle
        /\ writer_log = NoWriterLog
        /\ FilesIdle

\* update_spatial, after the read loop: smooth_ground(self.ground).
SmoothGround ==
    /\ impl = "forestutils"
    /\ pc = "smooth"
    /\ LET r == smooth_ground(ground) IN
        /\ ground' = r.ground
        /\ smoothed' = r.written
    /\ pc' = "label"
    /\ UNCHANGED <<filevars, smoothvars, geovars, analysisvars, codecvars, density, canopy, filtered_density, keyorder, trees, impl,
                   neighbor_order, memovars, ingested, cc_labels>>

\* update_spatial, last line: self.trees = self._tree_components().
TreeComponents ==
    /\ impl = "forestutils"
    /\ pc = "label"
    /\ trees' = tree_components(CurrentGrid)
    /\ cc_labels' = coarse_labels(CurrentGrid)
    /\ pc' = "done"
    /\ UNCHANGED <<filevars, smoothvars, geovars, analysisvars, codecvars, gridvars, impl, neighbor_order, memovars, ingested, smoothed>>

\* forest-utils.py: a read of the property `trees` (_get_components).
GetComponents ==
    /\ impl = "forest-utils"
    /\ pc = "ready"
    /\ IF components_counted_at # count
       THEN /\ components_counted_at' = count
            /\ components_map' = v0_tree_components(CurrentGrid, neighbor_order)
       ELSE UNCHANGED <<components_counted_at, components_map>>
    /\ lastread' = [read |-> TRUE, recomputed |-> components_counted_at # count,
                    unread |-> unread, map |-> components_map']
    /\ unread' = FALSE
    /\ UNCHANGED <<filevars, smoothvars, geovars, analysisvars, codecvars, pc, gridvars, trees, impl, neighbor_order, count, ingested,
                   smoothed, cc_labels>>

NextMap == SmoothGround \/ TreeComponents \/ GetComponents

SpecMap == InitMap /\ [][NextMap]_vars

-----------------------------------------------------------------------------
(* Specification SpecLabel: the end of update_spatial, smooth_ground and   *)
(* _tree_components, under an interpreter whose recursion limit is either  *)
(* the default one or low enough for expand to reach it on a few cells.    *)

\* A recursion limit that leaves expand two levels.
LowRecursionLimit == 2

RecursionLimits == {LowRecursionLimit, RecursionLimit}

\* expand(old_key, com) from the i-th neighbour on, at depth d, when
\* RecursionError is raised on entering a level deeper than `limit`.
RECURSIVE expand_within(_, _, _, _, _)
expand_within(old_key, com, i, d, limit) ==
    IF d > limit THEN [com |-> com, raised |-> TRUE]
    ELSE IF i > Len(neighbor_offsets) THEN [com |-> com, raised |-> FALSE]
    ELSE LET key == neighbors(old_key)[i] IN
         IF key \notin DOMAIN com
         THEN [com |-> com, raised |-> FALSE]
         ELSE IF com[key] = com[old_key]
         THEN expand_within(old_key, com, i + 1, d, limit)
         ELSE IF com[key] < com[old_key]
         THEN expand_within(old_key, [com EXCEPT ![old_key] = com[key]], i + 1, d, limit)
         ELSE LET sub == expand_within(key, [com EXCEPT ![key] = com[old_key]], 1, d + 1,
                                       limit) IN
              IF sub.raised THEN sub
              ELSE expand_within(old_key, sub.com, i + 1, d, limit)

\* The loop of connected_components from the i-th key on: the dict, and the
\* keys whose expand ended in the `except RuntimeError: continue`.
RECURSIVE connected_components_within(_, _, _, _, _)
connected_components_within(com, order, i, limit, deferred) ==
    IF i > Len(order) THEN [com |-> com, deferred |-> deferred, raised |-> ""]
    ELSE LET r == expand_within(order[i], com, 1, 1, limit) IN
         connected_components_within(r.com, order, i + 1, limit,
                                     IF r.raised THEN deferred \cup {order[i]} ELSE deferred)

\* _tree_components() up to the call of connected_components.
coarse_labels_within(m, limit) ==
    connected_components_within(initial_labels(key_scale_order(m)), key_scale_order(m), 1,
                                limit, {})

MaxTrees == 4

\* The CoarseCells of a block of 3 x 3.
CoarseBlock == {<<i, j>> : i \in 0..2, j \in 0..2}

\* The two points of a tree that stands in the CoarseCell `k`.
TreePoints(k) ==
    <<PointIn(<<k[1] * joinedcells, k[2] * joinedcells>>, 0),
      PointIn(<<k[1] * joinedcells, k[2] * joinedcells>>, TallHeight)>>

\* Files of up to MaxTrees trees, one per CoarseCell, in every order.
ForestFiles ==
    UNION {
        {Flatten([i \in 1..n |-> TreePoints(cells[i])]) :
            cells \in {c \in [1..n -> CoarseBlock] : \A i, j \in 1..n : i # j => c[i] # c[j]}}
        : n \in 0..MaxTrees}

\* update_spatial after its read loop.
InitLabel ==
    \E file \in ForestFiles :
        LET m == ingest_all(file) IN
        /\ impl = "forestutils"
        /\ neighbor_order = NoOrder
        /\ pc = "read"
        /\ density = m.density
        /\ ground = m.ground
        /\ canopy = m.canopy
        /\ filtered_density = m.filtered_density
        /\ keyorder = m.keyorder
        /\ ingested = file
        /\ trees = EmptyMap
        /\ count = 0
        /\ components_counted_at = None
        /\ components_map = EmptyMap
        /\ smoothed = {}
        /\ cc_labels = EmptyMap
        /\ lastread = NoRead
        /\ unread = TRUE
        /\ CodecIdle
        /\ AnalysisIdle
        /\ SmoothIdle
        /\ GeoIdle
        /\ writer_log = NoWriterLog
        /\ FilesIdle

\* smooth_ground(self.ground); self.trees = self._tree_components(), with
\* the recursion limit the interpreter has.
LabelWithin ==
    /\ pc = "read"
    /\ \E limit \in RecursionLimits :
        LET r == smooth_ground(ground)
            built == [CurrentGrid EXCEPT !.ground = r.ground]
            labelled == coarse_labels_within(built, limit) IN
        /\ ground' = r.ground
        /\ smoothed' = r.written
        /\ cc_labels' = labelled.com
        /\ trees' = back_project(built, labelled.com)
        /\ pc' = IF labelled.raised = "" THEN "labelled" ELSE "label_raised"
    /\ UNCHANGED <<filevars, smoothvars, geovars, analysisvars, codecvars, memovars, density, canopy,
                   filtered_density, keyorder, impl, neighbor_order, ingested>>

NextLabel == LabelWithin

SpecLabel == InitLabel /\ [][NextLabel]_vars

-----------------------------------------------------------------------------
(* Specification SpecMemo: forest-utils.py's MapObj, points added one at a *)
(* time with update and the component map read through `trees` at any     *)
(* moment in between.                                                      *)

MaxUpdates == 4

MemoPoints == [x : {0}, y : {0, 8}, z : {0, 13}]

InitMemo ==
    /\ impl = "forest-utils"
    /\ neighbor_order \in v0_neighbor_orders
    /\ pc = "ready"
    /\ density = EmptyMap
    /\ ground = EmptyMap
    /\ canopy = EmptyMap
    /\ filtered_density = EmptyMap
    /\ keyorder = << >>
    /\ ingested = << >>
    /\ trees = EmptyMap
    /\ count = 0
    /\ components_counted_at = None
    /\ components_map = EmptyMap
    /\ smoothed = {}
    /\ cc_labels = EmptyMap
    /\ lastread = NoRead
    /\ unread = TRUE
    /\ CodecIdle
    /\ AnalysisIdle
    /\ SmoothIdle
    /\ GeoIdle
    /\ writer_log = NoWriterLog
    /\ FilesIdle

\* A seeded bug: update forgets to count the point.
update_count_forgotten(n) == n

\* self.count += 1
update_count(n) == n + 1

\* forest-utils.py: MapObj.update(point).
Update ==
    /\ impl = "forest-utils"
    /\ pc = "ready"
    /\ Len(ingested) < MaxUpdates
    /\ \E p \in MemoPoints :
        /\ count' = update_count(count)
        /\ SetGrid(v0_update_point(CurrentGrid, p))
        /\ ingested' = Append(ingested, p)
    /\ unread' = TRUE
    /\ UNCHANGED <<filevars, smoothvars, geovars, analysisvars, codecvars, pc, trees, impl, neighbor_order, components_counted_at,
                   components_map, lastread, smoothed, cc_labels>>

NextMemo == Update \/ GetComponents

SpecMemo == InitMemo /\ [][NextMemo]_vars

-----------------------------------------------------------------------------
(* pointcloudfile.py, in its two versions: write, IncrementalWriter and    *)
(* read.  A header is a sequence of lines and a line a sequence of tokens; *)
(* the body of a file is a sequence of packed records.  The file name has  *)
(* an existing parent directory.                                           *)

ROOT == "src/pointcloudfile.py"

SRC == "src/src/pointcloudfile.py"

\* A position is an integer number of quarters of the float32 step at its
\* magnitude: the doubles that are float32 values are the multiples of Ulp.
Ulp == 4

\* struct packs a double into an 'f' field by rounding it to the nearest
\* float32, ties to the one with an even significand.
to_float32(v) ==
    LET lo == (v \div Ulp) * Ulp
        r == v - lo IN
    IF 2 * r < Ulp THEN lo
    ELSE IF 2 * r > Ulp THEN lo + Ulp
    ELSE IF (lo \div Ulp) % 2 = 0 THEN lo ELSE lo + Ulp

\* self.binary = struct.Struct('<fffBBB'), as a sequence of field types.
binary == <<"f", "f", "f", "B", "B", "B">>

\* self.binary.size: three floats and three bytes.
RecordBytes == 15

\* struct.error: a 'B' field takes 0..255 only.
packable(point) == \A i \in 4..6 : point[i] \in 0..255

\* self.binary.pack(*point) for a point with colours in 0..255.
pack(point) ==
    <<to_float32(point[1]), to_float32(point[2]), to_float32(point[3]),
      point[4], point[5], point[6]>>

\* fmt.unpack: a field of type 'f' gives the double equal to the stored
\* float32 and a field of type 'B' the stored byte.
unpack(form, record) == [i \in 1..Len(form) |-> record[i]]

\* '{:.2f}'.format(v) read back with float(): v, in thousandths, rounded to
\* hundredths.
format_2f(v) == ((v + 5) \div 10) * 10

\* list.insert(-2, line): before the last but one element.
insert_before_last_but_one(head, line) ==
    SubSeq(head, 1, Len(head) - 2) \o <<line>> \o SubSeq(head, Len(head) - 1, Len(head))

\* The header lines both writers start from.
plain_head(n) ==
    << <<"ply">>,
       <<"format", "binary_little_endian", "1.0">>,
       <<"element", "vertex", n>>,
       <<"property", "float", "x">>,
       <<"property", "float", "y">>,
       <<"property", "float", "z">>,
       <<"property", "uchar", "red">>,
       <<"property", "uchar", "green">>,
       <<"property", "uchar", "blue">>,
       <<"end_header">> >>

\* UTM_MAX_VAL = 10**7, in metres.
UTM_MAX_VAL == 10000000

\* 0 <= v <= UTM_MAX_VAL for v in thousandths of a metre.
in_utm_range(v) ==
    /\ 0 <= v
    /\ \/ v \div 1000 < UTM_MAX_VAL
       \/ v \div 1000 = UTM_MAX_VAL /\ v % 1000 = 0

\* utm_convert.UTM_coords(x, y, zone, south): the asserts.
UTM_coords_valid(u) ==
    /\ in_utm_range(u[1])
    /\ in_utm_range(u[2])
    /\ u[3] \in 1..60
    /\ u[4] \in BOOLEAN

\* IncrementalWriter.__init__(filename, utm_coords).  In src/src the tuple is
\* unpacked into UTM_coords: None cannot be unpacked (TypeError, which the
\* except AssertionError clause lets through), a failed assert leaves None.
writer_init(version, utm, buffer) ==
    IF version = SRC /\ utm = NoneUtm
    THEN [raised |-> "TypeError", writer |-> NoWriter]
    ELSE [raised |-> "",
          writer |-> [alive |-> TRUE, count |-> 0, temp_storage |-> << >>,
                      utm_coords |-> IF version = SRC /\ ~UTM_coords_valid(utm)
                                     THEN NoneUtm ELSE utm,
                      max_size |-> buffer, rolled |-> FALSE]]

\* A seeded bug: the writer stores the record and forgets to count it.
writer_call_uncounted(w, point) ==
    [w EXCEPT !.temp_storage = Append(@, pack(point)),
              !.rolled = @ \/ RecordBytes * (Len(w.temp_storage) + 1) > w.max_size]

\* IncrementalWriter.__call__(point) for a point pack accepts.  The
\* SpooledTemporaryFile moves to a temporary file on disk once it holds more
\* than max_size bytes; what is read back from it stays the same.
writer_call(w, point) ==
    [w EXCEPT !.temp_storage = Append(@, pack(point)), !.count = @ + 1,
              !.rolled = @ \/ RecordBytes * (Len(w.temp_storage) + 1) > w.max_size]

\* The header of save_to_disk (src/pointcloudfile.py) and of __del__
\* (src/src/pointcloudfile.py).
writer_head(version, w) ==
    IF version = ROOT
    THEN IF w.utm_coords # NoneUtm /\ Len(w.utm_coords) = 4
         THEN insert_before_last_but_one(plain_head(w.count),
                  <<"comment", "UTM_easting", "UTM_northing", "altitude", "zone",
                    format_2f(w.utm_coords[1]), format_2f(w.utm_coords[2]),
                    format_2f(w.utm_coords[3]), w.utm_coords[4]>>)
         ELSE plain_head(w.count)
    ELSE IF w.utm_coords # NoneUtm
         THEN insert_before_last_but_one(plain_head(w.count),
                  <<"comment", "UTM", "x", "y", "zone", "south",
                    format_2f(w.utm_coords[1]), format_2f(w.utm_coords[2]),
                    w.utm_coords[3], IF w.utm_coords[4] THEN "1" ELSE "0">>)
         ELSE plain_head(w.count)

\* The file the writer leaves: the header, then the temporary storage.
writer_file(version, w) ==
    [exists |-> TRUE, head |-> writer_head(version, w), body |-> w.temp_storage]

\* save_to_disk / __del__ on a writer whose temp_storage is closed: the
\* file is opened for writing and gets the header, then
\* temp_storage.seek(0) raises ValueError.
writer_file_closed(version, w) ==
    [exists |-> TRUE, head |-> writer_head(version, w), body |-> << >>]

\* itertools.takewhile(lambda l: l[0] == 'property', lines)
RECURSIVE takewhile_property(_)
takewhile_property(lines) ==
    IF lines = << >> \/ Head(lines)[1] # "property" THEN << >>
    ELSE <<Head(lines)>> \o takewhile_property(Tail(lines))

PLY_TYPES ==
    [t \in {"float", "double", "uchar", "char", "ushort", "short", "uint", "int"} |->
        CASE t = "float" -> "f" [] t = "double" -> "d" [] t = "uchar" -> "B"
          [] t = "char" -> "b" [] t = "ushort" -> "H" [] t = "short" -> "h"
          [] t = "uint" -> "I" [] t = "int" -> "i"]

\* A seeded bug: only the x property is looked for.
parse_ply_header_x_only(head) ==
    LET rest == SubSeq(head, 3, Len(head))
        comments == SelectSeq(rest, LAMBDA c : c[1] = "comment")
        lines == SelectSeq(rest, LAMBDA l : l[1] # "comment")
        properties == takewhile_property(Tail(lines))
        names == [i \in 1..Len(properties) |-> properties[i][3]]
        failed == [raised |-> "ValueError", vertex_count |-> 0, names |-> << >>,
                   form |-> << >>, comments |-> << >>] IN
    IF \E i \in DOMAIN properties : properties[i][2] \notin DOMAIN PLY_TYPES
    THEN [failed EXCEPT !.raised = "KeyError"]
    ELSE IF "x" \notin Range(names) THEN failed
    ELSE [raised |-> "", vertex_count |-> lines[1][3], names |-> names,
          form |-> [i \in 1..Len(properties) |-> PLY_TYPES[properties[i][2]]],
          comments |-> comments]

\* src/src/pointcloudfile.py: parse_ply_header(header_text).
parse_ply_header(head) ==
    LET magic_num == head[1]
        data_format == head[2]
        rest == SubSeq(head, 3, Len(head))
        comments == SelectSeq(rest, LAMBDA c : c[1] = "comment")
        lines == SelectSeq(rest, LAMBDA l : l[1] # "comment")
        properties == takewhile_property(Tail(lines))
        names == [i \in 1..Len(properties) |-> properties[i][3]]
        failed == [raised |-> "ValueError", vertex_count |-> 0, names |-> << >>,
                   form |-> << >>, comments |-> << >>] IN
    IF magic_num # <<"ply">> THEN failed
    ELSE IF data_format[1] # "format" THEN failed
    ELSE IF "ascii" \in Range(data_format) THEN failed
    ELSE IF SubSeq(lines[1], 1, 2) # <<"element", "vertex">> THEN failed
    ELSE IF \E i \in DOMAIN properties : properties[i][2] \notin DOMAIN PLY_TYPES
    THEN [failed EXCEPT !.raised = "KeyError"]
    ELSE IF ~({"x", "y", "z"} \subseteq Range(names)) THEN failed
    ELSE [raised |-> "", vertex_count |-> lines[1][3], names |-> names,
          form |-> [i \in 1..Len(properties) |-> PLY_TYPES[properties[i][2]]],
          comments |-> comments]

\* src/src/pointcloudfile.py: _read_ply(fname), all of the iterator.
src_read_ply(file) ==
    IF ~file.exists THEN [raised |-> "FileNotFoundError", points |-> << >>]
    ELSE LET h == parse_ply_header(file.head) IN
         IF h.raised # "" THEN [raised |-> h.raised, points |-> << >>]
         ELSE IF h.vertex_count > Len(file.body)
         THEN [raised |-> "struct.error",
               points |-> [i \in 1..Len(file.body) |-> unpack(h.form, file.body[i])]]
         ELSE [raised |-> "",
               points |-> [i \in 1..h.vertex_count |-> unpack(h.form, file.body[i])]]

\* src/pointcloudfile.py: _process_header(head).  The first statement splits
\* every line on b' ': lines that are str raise TypeError.  Lines that are
\* bytes are split, but no list of bytes equals ['end_header'], so the loop
\* pops every line and raises ValueError.
root_process_header(head, kind) ==
    IF head # << >> /\ kind = "str" THEN "TypeError" ELSE "ValueError"

\* src/pointcloudfile.py: _read_ply(fname) decodes the header lines to str
\* and hands them to _process_header.
root_read_ply(file) ==
    IF ~file.exists THEN [raised |-> "FileNotFoundError", points |-> << >>]
    ELSE [raised |-> root_process_header(file.head, "str"), points |-> << >>]

\* read(fname) for a name that is no part of a multi-part export.
read(version, file) ==
    IF version = ROOT THEN root_read_ply(file) ELSE src_read_ply(file)

-----------------------------------------------------------------------------
(* Specification SpecCodec: write(cloud, fname, utm_coords), then          *)
(* read(fname).                                                            *)

MaxCloud == 2

CodecPoints ==
    {<<x, -3, z, c[1], c[2], c[3]>> :
        x \in {0, 6}, z \in {1, 8}, c \in {<<0, 0, 255>>, <<255, 128, 0>>}}
    \cup {<<0, -3, 1, 0, 0, 256>>}

Clouds == UNION {[1..n -> CodecPoints] : n \in 0..MaxCloud}

\* utm_coords: the default None, a valid offset, and one the version rejects
\* or ignores.
UtmChoices(version) ==
    IF version = ROOT
    THEN {NoneUtm, <<1004, 2000, 3000, 55>>, <<1004, 2000>>}
    ELSE {NoneUtm, <<1004, 2000, 55, TRUE>>, <<1004, 2000, 155, TRUE>>}

InitCodec ==
    /\ pc = "write"
    /\ codec \in {ROOT, SRC}
    /\ cloud \in Clouds
    /\ utm_coords \in UtmChoices(codec)
    /\ writer = NoWriter
    /\ disk = NoFile
    /\ readback = NoReadback
    /\ density = EmptyMap
    /\ ground = EmptyMap
    /\ canopy = EmptyMap
    /\ filtered_density = EmptyMap
    /\ keyorder = << >>
    /\ ingested = << >>
    /\ trees = EmptyMap
    /\ impl = "none"
    /\ neighbor_order = NoOrder
    /\ count = 0
    /\ components_counted_at = None
    /\ components_map = EmptyMap
    /\ smoothed = {}
    /\ cc_labels = EmptyMap
    /\ lastread = NoRead
    /\ unread = TRUE
    /\ AnalysisIdle
    /\ SmoothIdle
    /\ GeoIdle
    /\ writer_log = NoWriterLog
    /\ FilesIdle

\* 2**22, the default of `buffer`, and a size one record does not fit in.
DefaultBuffer == 4194304

BufferSizes == {DefaultBuffer, RecordBytes + 5}

\* write(): writer = IncrementalWriter(fname, utm_coords), or a caller that
\* builds the writer with a buffer size.  When __init__ raises, write()
\* ends with that exception; the half-built object is finalised at once,
\* and in src/src its __del__ fails on the missing attribute before it
\* opens the file.
WriterInit ==
    /\ pc = "write"
    /\ \E buffer \in BufferSizes :
        LET r == writer_init(codec, utm_coords, buffer) IN
        /\ writer' = r.writer
        /\ pc' = IF r.raised = "" THEN "feed" ELSE "write_raised"
    /\ UNCHANGED <<filevars, smoothvars, geovars, analysisvars, mapvars, codec, cloud, utm_coords,
                   disk, readback>>

\* The writer is dropped on an exception.  src/pointcloudfile.py has no
\* __del__: nothing is written.  In src/src the interpreter runs __del__
\* once the exception is handled, which writes what was appended so far.
writer_dropped(version, w, log, exception) ==
    IF version = ROOT
    THEN [disk |-> NoFile,
          log |-> [log EXCEPT !.raised = exception]]
    ELSE [disk |-> writer_file(version, w),
          log |-> [log EXCEPT !.raised = exception, !.begun = @ + 1, !.completed = @ + 1]]

\* write(): for p in cloud: writer(p)
WriterCall ==
    /\ pc = "feed"
    /\ Len(writer_log.appended) < Len(cloud)
    /\ LET p == cloud[Len(writer_log.appended) + 1] IN
        IF packable(p)
        THEN /\ writer' = writer_call(writer, p)
             /\ writer_log' = [writer_log EXCEPT !.appended = Append(@, p)]
             /\ UNCHANGED <<pc, disk>>
        ELSE LET r == writer_dropped(codec, writer, writer_log, "struct.error") IN
             /\ writer' = [writer EXCEPT !.alive = FALSE, !.temp_storage = << >>]
             /\ writer_log' = r.log
             /\ disk' = r.disk
             /\ pc' = "write_raised"
    /\ UNCHANGED <<files, offset, smoothvars, geovars, analysisvars, mapvars, codec, cloud, utm_coords,
                   readback>>

\* write(): the iterable `cloud` raises instead of giving its next point.
CloudRaises ==
    /\ pc = "feed"
    /\ Len(writer_log.appended) < Len(cloud)
    /\ LET r == writer_dropped(codec, writer, writer_log, "cloud raised") IN
        /\ writer_log' = r.log
        /\ disk' = r.disk
    /\ writer' = [writer EXCEPT !.alive = FALSE, !.temp_storage = << >>]
    /\ pc' = "write_raised"
    /\ UNCHANGED <<files, offset, smoothvars, geovars, analysisvars, mapvars, codec, cloud, utm_coords,
                   readback>>

\* write(), the loop done: writer.save_to_disk() in src/pointcloudfile.py;
\* in src/src write() returns and the writer is finalised by __del__.
WriterSave ==
    /\ pc = "feed"
    /\ Len(writer_log.appended) = Len(cloud)
    /\ disk' = writer_file(codec, writer)
    /\ writer' = [writer EXCEPT !.alive = FALSE, !.temp_storage = << >>]
    /\ writer_log' = [writer_log EXCEPT !.begun = @ + 1, !.completed = @ + 1]
    /\ pc' = "written"
    /\ UNCHANGED <<files, offset, smoothvars, geovars, analysisvars, mapvars, codec, cloud, utm_coords,
                   readback>>

\* The caller asks for the finalisation again: save_to_disk() a second
\* time, or __del__() by hand before the interpreter runs it.
WriterSaveAgain ==
    /\ pc = "written"
    /\ writer_log.begun = 1
    /\ disk' = writer_file_closed(codec, writer)
    /\ writer_log' = [writer_log EXCEPT !.begun = @ + 1, !.raised = "ValueError"]
    /\ UNCHANGED <<files, offset, smoothvars, geovars, analysisvars, mapvars, pc, codec, cloud,
                   utm_coords, writer, readback>>

\* list(read(fname)), after write() returned or raised.
Read ==
    /\ pc \in {"written", "write_raised"}
    /\ readback' = read(codec, disk)
    /\ pc' = "read_back"
    /\ UNCHANGED <<filevars, smoothvars, geovars, analysisvars, mapvars, codec, cloud, utm_coords,
                   writer, disk>>

-----------------------------------------------------------------------------
(* pointcloudfile.py: offset_for / UTM_offset_for, read and                *)
(* _read_pix4d_ply_parts.  The export on disk is the record `files`: the   *)
(* .ply files by name, the <stem>_ply_offset.xyz files by the name of      *)
(* their .ply, and the name the call is made with.  Offsets are in         *)
(* thousandths of a metre, and so are the positions of the points here.    *)

\* <stem>_point_cloud_part_<k>.ply, and a name that does not end that way.
PartName(k) == <<"part", k>>

PlainName == <<"plain", 0>>

\* fname.endswith('_point_cloud_part_1.ply')
ends_with_part_1(fname) == fname = PartName(1)

\* os.path.isfile(name)
isfile(fs, name) == name \in DOMAIN fs.ply

file_of(fs, name) == IF isfile(fs, name) THEN fs.ply[name] ELSE NoFile

\* The largest part number of the exports considered.
MaxParts == 3

\* A seeded bug: the probing goes on past a missing part.
discover_parts_past_gaps(fs, parts, p) ==
    parts \o SelectSeq([i \in 1..(MaxParts + 1 - p) |-> PartName(p + i - 1)],
                       LAMBDA n : isfile(fs, n))

\* read(): the loop that probes for part p, p + 1, ... and stops at the
\* first name that is no file.
RECURSIVE discover_parts(_, _, _)
discover_parts(fs, parts, p) ==
    IF isfile(fs, PartName(p)) THEN discover_parts(fs, Append(parts, PartName(p)), p + 1)
    ELSE parts

\* com.startswith('comment UTM x y zone south')
is_utm_comment(com) ==
    /\ Len(com) >= 6
    /\ SubSeq(com, 1, 6) = <<"comment", "UTM", "x", "y", "zone", "south">>

\* src/src/pointcloudfile.py: offset_for(filename).  The offset file is
\* looked for first; the header is only read when there is none.
src_offset_for(fs, name) ==
    IF name \in DOMAIN fs.xyz THEN [raised |-> "", value |-> fs.xyz[name]]
    ELSE IF ~isfile(fs, name) THEN [raised |-> "FileNotFoundError", value |-> << >>]
    ELSE LET h == parse_ply_header(fs.ply[name].head)
             found == SelectSeq(h.comments, is_utm_comment) IN
         IF h.raised # "" THEN [raised |-> h.raised, value |-> << >>]
         ELSE IF found # << >>
         THEN [raised |-> "",
               value |-> <<found[1][Len(found[1]) - 3], found[1][Len(found[1]) - 2], 0>>]
         ELSE [raised |-> "", value |-> <<0, 0, 0>>]

\* src/pointcloudfile.py: UTM_offset_for(filename).  The header lines are
\* read as bytes and handed to _process_header, which raises before the
\* comment or the offset file is looked at.
root_offset_for(fs, name) ==
    IF ~isfile(fs, name) THEN [raised |-> "FileNotFoundError", value |-> << >>]
    ELSE [raised |-> root_process_header(fs.ply[name].head, "bytes"), value |-> << >>]

offset_for(version, fs, name) ==
    IF version = ROOT THEN root_offset_for(fs, name) ELSE src_offset_for(fs, name)

\* p._replace(x=p.x+dx)._replace(y=p.y+dy)._replace(z=p.z+dz) for a point
\* whose first three fields are x, y, z.
shifted(p, d) == [i \in DOMAIN p |-> IF i <= 3 THEN p[i] + d[i] ELSE p[i]]

\* A seeded bug: the later parts are shifted in z by the difference of the
\* altitude offsets, not by their own altitude offset.
RECURSIVE src_read_later_parts_dz_difference(_, _, _, _)
src_read_later_parts_dz_difference(fs, names, origin, sofar) ==
    IF names = << >> THEN [raised |-> "", points |-> sofar]
    ELSE LET o == src_offset_for(fs, Head(names))
             r == src_read_ply(file_of(fs, Head(names))) IN
         IF o.raised # "" THEN [raised |-> o.raised, points |-> sofar]
         ELSE LET d == <<o.value[1] - origin[1], o.value[2] - origin[2],
                         o.value[3] - origin[3]>>
                  got == sofar \o [i \in DOMAIN r.points |-> shifted(r.points[i], d)] IN
              IF r.raised # "" THEN [raised |-> r.raised, points |-> got]
              ELSE src_read_later_parts_dz_difference(fs, Tail(names), origin, got)

\* The loop over the later parts of src/src _read_pix4d_ply_parts: `sofar`
\* is what the generator has yielded, and it ends at the first exception.
RECURSIVE src_read_later_parts(_, _, _, _)
src_read_later_parts(fs, names, origin, sofar) ==
    IF names = << >> THEN [raised |-> "", points |-> sofar]
    ELSE LET o == src_offset_for(fs, Head(names))
             r == src_read_ply(file_of(fs, Head(names))) IN
         IF o.raised # "" THEN [raised |-> o.raised, points |-> sofar]
         ELSE LET d == <<o.value[1] - origin[1], o.value[2] - origin[2], o.value[3] - 0>>
                  got == sofar \o [i \in DOMAIN r.points |-> shifted(r.points[i], d)] IN
              IF r.raised # "" THEN [raised |-> r.raised, points |-> got]
              ELSE src_read_later_parts(fs, Tail(names), origin, got)

\* src/src/pointcloudfile.py: _read_pix4d_ply_parts(fname_list).
src_read_pix4d_ply_parts(fs, names) ==
    IF \E i \in DOMAIN names : ~isfile(fs, names[i])
    THEN [raised |-> "FileNotFoundError", points |-> << >>]
    ELSE LET o == src_offset_for(fs, Head(names))
             r == src_read_ply(file_of(fs, Head(names))) IN
         IF o.raised # "" THEN [raised |-> o.raised, points |-> << >>]
         ELSE LET got == [i \in DOMAIN r.points |->
                              shifted(r.points[i], <<0, 0, o.value[3]>>)] IN
              IF r.raised # "" THEN [raised |-> r.raised, points |-> got]
              ELSE src_read_later_parts(fs, Tail(names), o.value, got)

\* src/pointcloudfile.py: _read_pix4d_ply_parts(fname_list): the first part
\* is read with _read_ply, which raises before it yields.
root_read_pix4d_ply_parts(fs, names) ==
    IF \E i \in DOMAIN names : ~isfile(fs, names[i])
    THEN [raised |-> "FileNotFoundError", points |-> << >>]
    ELSE root_read_ply(file_of(fs, Head(names)))

\* read(fname), all of the iterator it returns.
read_named(version, fs, fname) ==
    IF ends_with_part_1(fname)
    THEN LET parts == discover_parts(fs, <<fname>>, 2) IN
         IF version = ROOT THEN root_read_pix4d_ply_parts(fs, parts)
         ELSE src_read_pix4d_ply_parts(fs, parts)
    ELSE read(version, file_of(fs, fname))

-----------------------------------------------------------------------------
(* Specification SpecCodec, its last step and its next-state relation.     *)

\* The directory after write(cloud, fname, utm_coords): the written file,
\* and no <stem>_ply_offset.xyz file beside it.
written_alone(file) ==
    [ply |-> [n \in {PlainName} |-> file], xyz |-> << >>, fname |-> PlainName]

\* offset_for(fname) / UTM_offset_for(fname) on the file write() left.
OffsetForWritten ==
    /\ pc = "written"
    /\ writer_log.begun = 1
    /\ offset' = offset_for(codec, written_alone(disk), PlainName)
    /\ pc' = "looked_up"
    /\ UNCHANGED <<writer_log, files, smoothvars, geovars, analysisvars, mapvars, codec, cloud,
                   utm_coords, writer, disk, readback>>

NextCodec ==
    WriterInit \/ WriterCall \/ CloudRaises \/ WriterSave \/ WriterSaveAgain \/ Read
    \/ OffsetForWritten

SpecCodec == InitCodec /\ [][NextCodec]_vars

-----------------------------------------------------------------------------
(* Specification SpecParts: an export of up to MaxParts part files and one *)
(* file of another name is on disk; it is read, and the offset of a file   *)
(* is looked up.                                                           *)

\* The offset files of an export: two that differ by (10, 20, 0) metres.
\* The parts after the second have the second one or none.
SidecarChoices(name) ==
    IF name[2] <= 2 THEN {NoneUtm, <<1000, 2000, 5000>>, <<11000, 22000, 5000>>}
    ELSE {NoneUtm, <<11000, 22000, 5000>>}

\* The offset a header comment embeds, as write() is given it; the parts
\* after the second are as Pix4D exports them, without the comment.
EmbeddedChoices(name) ==
    IF name[2] <= 2 THEN {NoneUtm, <<30000, 40000, 55, TRUE>>} ELSE {NoneUtm}

\* The two points of the file `name`; the red byte tells the files apart.
PointsOf(name) ==
    << <<0, 8, 16, name[2], 1, 0>>, <<4, 12, 20, name[2], 2, 0>> >>

RECURSIVE feed(_, _)
feed(w, points) ==
    IF points = << >> THEN w
    ELSE writer_call(feed(w, SubSeq(points, 1, Len(points) - 1)), points[Len(points)])

\* A .ply file as src/src/pointcloudfile.py writes it: with the comment
\* when an offset is given, and without it as Pix4D exports it.
PlyFile(name, embedded) ==
    LET w == [alive |-> TRUE, count |-> 0, temp_storage |-> << >>, utm_coords |-> embedded,
              max_size |-> DefaultBuffer, rolled |-> FALSE] IN
    writer_file(SRC, feed(w, PointsOf(name)))

ExportNames == {PartName(k) : k \in 1..MaxParts} \cup {PlainName}

\* Every export: which of the names are files, with which comment, and
\* which of them have an offset file.
Exports ==
    {[ply |-> [n \in present |-> PlyFile(n, embedded[n])],
      xyz |-> [n \in {n \in present : sidecar[n] # NoneUtm} |-> sidecar[n]]]
     : present \in SUBSET ExportNames,
       embedded \in {e \in [ExportNames -> UNION {EmbeddedChoices(n) : n \in ExportNames}] :
                        \A n \in ExportNames : e[n] \in EmbeddedChoices(n)},
       sidecar \in {c \in [ExportNames -> UNION {SidecarChoices(n) : n \in ExportNames}] :
                        \A n \in ExportNames : c[n] \in SidecarChoices(n)}}

AskedNames == {PartName(1), PartName(2), PlainName}

InitParts ==
    /\ pc = "export"
    /\ codec \in {ROOT, SRC}
    /\ \E fs \in Exports, fname \in AskedNames :
        files = [ply |-> fs.ply, xyz |-> fs.xyz, fname |-> fname]
    /\ offset = NoOffset
    /\ writer_log = NoWriterLog
    /\ cloud = << >>
    /\ utm_coords = NoneUtm
    /\ writer = NoWriter
    /\ disk = NoFile
    /\ readback = NoReadback
    /\ density = EmptyMap
    /\ ground = EmptyMap
    /\ canopy = EmptyMap
    /\ filtered_density = EmptyMap
    /\ keyorder = << >>
    /\ ingested = << >>
    /\ trees = EmptyMap
    /\ impl = "none"
    /\ neighbor_order = NoOrder
    /\ count = 0
    /\ components_counted_at = None
    /\ components_map = EmptyMap
    /\ smoothed = {}
    /\ cc_labels = EmptyMap
    /\ lastread = NoRead
    /\ unread = TRUE
    /\ AnalysisIdle
    /\ SmoothIdle
    /\ GeoIdle

\* list(read(fname))
ReadNamed ==
    /\ pc = "export"
    /\ readback' = read_named(codec, files, files.fname)
    /\ pc' = "read_back"
    /\ UNCHANGED <<filevars, smoothvars, geovars, analysisvars, mapvars, codec, cloud, utm_coords,
                   writer, disk>>

\* offset_for(fname) / UTM_offset_for(fname)
OffsetFor ==
    /\ pc = "export"
    /\ offset' = offset_for(codec, files, files.fname)
    /\ pc' = "looked_up"
    /\ UNCHANGED <<writer_log, files, smoothvars, geovars, analysisvars, mapvars, codec, cloud,
                   utm_coords, writer, disk, readback>>

NextParts == ReadNamed \/ OffsetFor

SpecParts == InitParts /\ [][NextParts]_vars

-----------------------------------------------------------------------------
(* Specification SpecHeader: a .ply file whose header declares any         *)
(* selection of the properties x, y, z, red, green, blue, possibly one of  *)
(* a type struct has no code for, is on disk and is read.                  *)

MaxVertices == 2

PropertyNames == <<"x", "y", "z", "red", "green", "blue">>

\* The declared properties, in file order: a selection of PropertyNames.
Declared(chosen) == SelectSeq(PropertyNames, LAMBDA n : n \in chosen)

\* The type a property is declared with; `odd` names the property that is
\* declared with a type PLY_TYPES does not know.
declared_type(name, odd) ==
    IF name = odd THEN "float32"
    ELSE IF name \in {"x", "y", "z"} THEN "float" ELSE "uchar"

stored_head(chosen, odd, n) ==
    << <<"ply">>, <<"format", "binary_little_endian", "1.0">>, <<"element", "vertex", n>> >>
    \o [i \in 1..Len(Declared(chosen)) |->
            <<"property", declared_type(Declared(chosen)[i], odd), Declared(chosen)[i]>>]
    \o << <<"end_header">> >>

\* The record of vertex k: one value for each declared property.
stored_record(chosen, k) == [i \in 1..Len(Declared(chosen)) |-> Ulp * (k + i)]

StoredFiles ==
    {[exists |-> TRUE, head |-> stored_head(chosen, odd, n),
      body |-> [k \in 1..n |-> stored_record(chosen, k)]]
     : chosen \in SUBSET Range(PropertyNames), odd \in {"none", "x", "red"},
       n \in 0..MaxVertices}

InitHeader ==
    /\ pc = "stored"
    /\ codec \in {ROOT, SRC}
    /\ disk \in StoredFiles
    /\ files = NoFiles
    /\ offset = NoOffset
    /\ writer_log = NoWriterLog
    /\ cloud = << >>
    /\ utm_coords = NoneUtm
    /\ writer = NoWriter
    /\ readback = NoReadback
    /\ density = EmptyMap
    /\ ground = EmptyMap
    /\ canopy = EmptyMap
    /\ filtered_density = EmptyMap
    /\ keyorder = << >>
    /\ ingested = << >>
    /\ trees = EmptyMap
    /\ impl = "none"
    /\ neighbor_order = NoOrder
    /\ count = 0
    /\ components_counted_at = None
    /\ components_map = EmptyMap
    /\ smoothed = {}
    /\ cc_labels = EmptyMap
    /\ lastread = NoRead
    /\ unread = TRUE
    /\ AnalysisIdle
    /\ SmoothIdle
    /\ GeoIdle

\* list(read(fname)) on the stored file.
ReadStored ==
    /\ pc = "stored"
    /\ readback' = read(codec, disk)
    /\ pc' = "read_back"
    /\ UNCHANGED <<filevars, smoothvars, geovars, analysisvars, mapvars, codec, cloud, utm_coords,
                   writer, disk>>

NextHeader == ReadStored

SpecHeader == InitHeader /\ [][NextHeader]_vars

-----------------------------------------------------------------------------
(* src/src/forestutils.py: MapObj.is_ground, is_lowest, update_colours,    *)
(* save_sparse_cloud, tree_data and all_trees.  A quotient the code        *)
(* computes with `/` is kept as the pair <<dividend, divisor>>.  The       *)
(* points of a file are what read() yields: their x, y, z are float32      *)
(* values, which write() packs back without change.                        *)

RECURSIVE Sum(_, _)
Sum(f, S) == IF S = {} THEN 0 ELSE LET k == CHOOSE k \in S : TRUE IN f[k] + Sum(f, S \ {k})

\* point[2] - self.ground[coords(point)] < args.grounddepth
is_ground(g, point) == point.z - g[coords(point)] < grounddepth

\* point[2] == self.ground[coords(point)]
is_lowest(g, point) == point.z = g[coords(point)]

\* {k: v for k, v in p._asdict().items() if k not in 'xyz'}
p_cols(p) == [k \in DOMAIN p \ {"x", "y", "z"} |-> p[k]]

\* One iteration of the loop of update_colours: m is the pair of dicts
\* [filtered_density, colours] the loop writes.
update_colours_point(g, m, p) ==
    LET idx == coords(p) IN
    IF is_ground(g, p) THEN m
    ELSE [filtered_density |-> [m.filtered_density EXCEPT ![idx] = @ + 1],
          colours |-> IF idx \notin DOMAIN m.colours
                      THEN Put(m.colours, idx, p_cols(p))
                      ELSE [m.colours EXCEPT ![idx] =
                                [k \in DOMAIN p_cols(p) |-> @[k] + p_cols(p)[k]]]]

RECURSIVE update_colours(_, _, _)
update_colours(g, m, points) ==
    IF points = << >> THEN m
    ELSE update_colours_point(g, update_colours(g, m, SubSeq(points, 1, Len(points) - 1)),
                              points[Len(points)])

\* The generator of save_sparse_cloud with the flags lowest and canopy.
sparse_points(g, points, lowest, canopy_flag) ==
    SelectSeq(points, LAMBDA point : \/ canopy_flag /\ ~is_ground(g, point)
                                     \/ lowest /\ is_lowest(g, point))

\* A seeded bug: the area counts the cells and forgets their size.
tree_data_area_in_cells(m, cols, keys, last, id) ==
    LET n == Cardinality(keys) IN
    [id |-> id,
     raised |-> IF \E k \in keys : k \notin DOMAIN cols THEN "KeyError" ELSE "",
     UTM_X |-> <<cellsize * Sum([k \in keys |-> k[1]], keys), n>>,
     UTM_Y |-> <<cellsize * Sum([k \in keys |-> k[2]], keys), n>>,
     height |-> SetMax({0} \cup {m.canopy[k] - m.ground[k] : k \in keys}),
     area |-> n,
     base_altitude |-> <<Sum([k \in keys |-> m.ground[k]], keys), n>>,
     point_count |-> Sum([k \in keys |-> m.density[k]], keys),
     colour |-> IF last \in DOMAIN cols
                THEN [c \in DOMAIN cols[last] |-> <<cols[last][c], m.filtered_density[last]>>]
                ELSE << >>]

\* tree_data(keys).  `last` is the key the loop `for k in keys` visits last:
\* its colour means are the ones left in the record.  The record comes with
\* the tree id it was computed for (history; the code's dict has no id).
\* UTM_X and UTM_Y are kept relative to self.utm.
tree_data(m, cols, keys, last, id) ==
    LET n == Cardinality(keys) IN
    [id |-> id,
     raised |-> IF \E k \in keys : k \notin DOMAIN cols THEN "KeyError" ELSE "",
     UTM_X |-> <<cellsize * Sum([k \in keys |-> k[1]], keys), n>>,
     UTM_Y |-> <<cellsize * Sum([k \in keys |-> k[2]], keys), n>>,
     height |-> SetMax({0} \cup {m.canopy[k] - m.ground[k] : k \in keys}),
     area |-> n * cellsize * cellsize,
     base_altitude |-> <<Sum([k \in keys |-> m.ground[k]], keys), n>>,
     point_count |-> Sum([k \in keys |-> m.density[k]], keys),
     colour |-> IF last \in DOMAIN cols
                THEN [c \in DOMAIN cols[last] |-> <<cols[last][c], m.filtered_density[last]>>]
                ELSE << >>]

\* A seeded bug: the height filter lets the boundary through.
passes_height_filter_inclusive(height) == 2 * height >= 3 * slicedepth

\* data['height'] > 1.5 * args.slicedepth
passes_height_filter(height) == 2 * height > 3 * slicedepth

tree_keys(tr, v) == {k \in DOMAIN tr : tr[k] = v}

\* all_trees().  `ids` is list(set(self.trees.values())) in the order the
\* interpreter iterates the set, and lastof[v] the key of tree v that its
\* set of keys gives last.  The result is what the generator yields up to
\* its end or up to the exception that ends it.
RECURSIVE all_trees(_, _, _, _, _)
all_trees(m, tr, cols, ids, lastof) ==
    IF ids = << >> THEN [raised |-> "", records |-> << >>]
    ELSE LET before == all_trees(m, tr, cols, SubSeq(ids, 1, Len(ids) - 1), lastof)
             v == ids[Len(ids)]
             data == tree_data(m, cols, tree_keys(tr, v), lastof[v], v)
         IN IF before.raised # "" THEN before
            ELSE IF data.raised # "" THEN [before EXCEPT !.raised = data.raised]
            ELSE IF passes_height_filter(data.height)
                 THEN [before EXCEPT !.records = Append(@, data)]
                 ELSE before

-----------------------------------------------------------------------------
(* Specification SpecAnalysis: main_processing after the MapObj is built.  *)
(* Either the sparse cloud is saved and becomes the file (then the colours *)
(* are read from it), or the input is itself a sparse file and the colours *)
(* are read at once; then all_trees is consumed.                           *)

MaxTreeCells == 3

\* The height that equals 1.5 x slicedepth.
BoundaryHeight == (3 * slicedepth) \div 2

TreeTops == {5, BoundaryHeight, BoundaryHeight + 1}

TreeKeyChoices == {<<0, 0>>, <<1, 1>>, <<3, 3>>, <<9, 0>>}

ColouredPoint(key, z, red) == [x |-> key[1] * cellsize + 1, y |-> key[2] * cellsize + 1,
                               z |-> z, red |-> red]

\* The points of one cell: its lowest point, in cell <<1, 1>> a second
\* point within grounddepth of it, and its top.
TreeCellPoints(cell) ==
    <<ColouredPoint(cell.key, 0, 10)>>
    \o (IF cell.key = <<1, 1>> THEN <<ColouredPoint(cell.key, 3, 20)>> ELSE << >>)
    \o <<ColouredPoint(cell.key, cell.top, 100 + cell.key[1])>>

TreeFiles ==
    UNION {
        {Flatten([i \in 1..n |-> TreeCellPoints(cells[i])]) :
            cells \in {c \in [1..n -> [key : TreeKeyChoices, top : TreeTops]] :
                        \A i, j \in 1..n : i # j => c[i].key # c[j].key}}
        : n \in 0..MaxTreeCells}

Orders(S) == {o \in [1..Cardinality(S) -> S] : \A i, j \in DOMAIN o : i # j => o[i] # o[j]}

\* MapObj(file, colours=False): the state when update_spatial has returned.
InitAnalysis ==
    \E file \in TreeFiles \cup BlockFiles :
        LET m == ingest_all(file)
            g == smooth_ground(m.ground)
            built == [m EXCEPT !.ground = g.ground]
        IN
        /\ impl = "forestutils"
        /\ neighbor_order = NoOrder
        /\ pc = "built"
        /\ density = m.density
        /\ ground = g.ground
        /\ canopy = m.canopy
        /\ filtered_density = m.filtered_density
        /\ keyorder = m.keyorder
        /\ ingested = file
        /\ trees = tree_components(built)
        /\ count = 0
        /\ components_counted_at = None
        /\ components_map = EmptyMap
        /\ smoothed = g.written
        /\ cc_labels = coarse_labels(built)
        /\ lastread = NoRead
        /\ unread = TRUE
        /\ CodecIdle
        /\ AnalysisIdle
        /\ SmoothIdle
        /\ GeoIdle
        /\ writer_log = NoWriterLog
        /\ FilesIdle

\* The file self.file names: the input, or the sparse cloud once saved.
current_file == IF sparse.written THEN sparse.points ELSE ingested

\* save_sparse_cloud(sparse) with its default flags; self.file = new_fname.
SaveSparseCloud ==
    /\ pc = "built"
    /\ sparse' = [written |-> TRUE, points |-> sparse_points(ground, ingested, TRUE, TRUE)]
    /\ pc' = "sparse"
    /\ UNCHANGED <<filevars, smoothvars, geovars, codecvars, mapvars, colours, tree_records>>

\* update_colours(), over the file self.file names.
UpdateColours ==
    /\ pc \in {"built", "sparse"}
    /\ LET r == update_colours(ground, [filtered_density |-> filtered_density,
                                         colours |-> colours], current_file) IN
        /\ filtered_density' = r.filtered_density
        /\ colours' = r.colours
    /\ pc' = "coloured"
    /\ UNCHANGED <<filevars, smoothvars, geovars, codecvars, memovars, density, ground, canopy, keyorder, trees, impl,
                   neighbor_order, ingested, smoothed, cc_labels, sparse, tree_records>>

\* stream_analysis: for data in self.all_trees().
AllTrees ==
    /\ pc = "coloured"
    /\ \E ids \in Orders(Range(trees)) :
       \E lastof \in {f \in [Range(trees) -> DOMAIN trees] : \A v \in Range(trees) : trees[f[v]] = v} :
        LET r == all_trees(CurrentGrid, trees, colours, ids, lastof) IN
        /\ tree_records' = r.records
        /\ pc' = IF r.raised = "" THEN "analysed" ELSE "analysis_raised"
    /\ UNCHANGED <<filevars, smoothvars, geovars, codecvars, mapvars, colours, sparse>>

NextAnalysis == SaveSparseCloud \/ UpdateColours \/ AllTrees

SpecAnalysis == InitAnalysis /\ [][NextAnalysis]_vars

-----------------------------------------------------------------------------
(* Specification SpecTrees: main_processing up to save_individual_trees.   *)
(* The files of the trees are kept by tree id: files.ply[t] is what the    *)
(* writer of tree_<t>.ply was called with, in order.                       *)

\* What args.savetrees names: nothing, a directory (or no path yet), a file.
SaveTreesTargets == {"", "dir", "file"}

\* The loop of save_individual_trees: the points each writer is called with.
save_individual_trees(tr, points) ==
    [tree_ID \in Range(tr) |->
        SelectSeq(points, LAMBDA point :
                            /\ coords(point) \in DOMAIN tr
                            /\ tr[coords(point)] = tree_ID)]

\* save_individual_trees(), after stream_analysis has consumed all_trees.
SaveIndividualTrees ==
    /\ pc = "analysed"
    /\ \E savetrees \in SaveTreesTargets :
        /\ files' = IF savetrees = "dir"
                    THEN [ply |-> save_individual_trees(trees, current_file),
                          xyz |-> EmptyMap, fname |-> savetrees]
                    ELSE files
        /\ pc' = IF savetrees = "file" THEN "trees_raised" ELSE "trees_saved"
    /\ UNCHANGED <<writer_log, offset, smoothvars, geovars, analysisvars, codecvars, mapvars>>

NextTrees == NextAnalysis \/ SaveIndividualTrees

SpecTrees == InitAnalysis /\ [][NextTrees]_vars

-----------------------------------------------------------------------------
(* src/utm_convert.py: LatLonToUTMXY, UTMXYToLatLon and what they call.    *)
(* Angles are integers in units of 1/RadUnit radian, lengths in            *)
(* thousandths of a metre.  The series of the projection are modelled      *)
(* where every term of theirs is exact: on the equator (phi = 0, y = 0)    *)
(* and on the central meridian (l = 0, x = 0), where math.sin and math.tan *)
(* give 0.0, math.cos gives 1.0 and every power of l or x is 0.0.  Off     *)
(* these lines the operators have no value.                                *)

RadUnit == 10000

\* math.pi
Pi == 31416

\* (sm_a, sm_b enter only terms that vanish on the lines modelled.)
\* math.radians(deg)
radians(deg) == (deg * Pi) \div 180

\* ArcLengthOfMeridian(phi): sum([phi, beta * sin(2 phi), ...]) * alpha.
ArcLengthOfMeridian(phi) == CASE phi = 0 -> 0

\* FootpointLatitude(y): sum([y_, beta_ * sin(2 y_), ...]) with y_ = y / alpha_.
FootpointLatitude(y) == CASE y = 0 -> 0

\* MapLatLonToXY(phi, lambda_, meridian): x is a sum of terms in l, l**3,
\* l**5, l**7 and y a sum of terms in l**2, ..., l**8 plus the arc length.
MapLatLonToXY(phi, lambda_, meridian) ==
    LET l == lambda_ - meridian IN
    CASE l = 0 -> <<0, ArcLengthOfMeridian(phi)>>

\* x * UTMScaleFactor and x / UTMScaleFactor, with UTMScaleFactor = 0.9996.
times_scale(v) == (v * 9996) \div 10000

over_scale(v) == CASE v = 0 -> 0

\* LatLonToUTMXY(lat, lon, target_zone) with a target zone given.  The
\* result is the tuple and what UTM_coords raised.
LatLonToUTMXY(lat, lon, target_zone) ==
    LET zone == target_zone
        c_merid == radians(zone * 6 - 183)
        xy == MapLatLonToXY(lat, lon, c_merid)
        x == times_scale(xy[1]) + (UTM_MAX_VAL \div 20) * 1000
        y0 == times_scale(xy[2])
        south == y0 < 0
        y == IF south THEN y0 + UTM_MAX_VAL * 1000 ELSE y0
        utm == <<x, y, zone, south>> IN
    IF UTM_coords_valid(utm) THEN [raised |-> "", value |-> utm]
    ELSE [raised |-> "AssertionError", value |-> NoneUtm]

\* def wrap(L, i): return ((L + math.pi/i) % 2*math.pi/i) - math.pi/i
\* `%`, `*` and `/` bind alike and group from the left:
\* (((L + pi/i) % 2) * pi) / i - pi/i.
wrap(L, i) ==
    ((((L + Pi \div i) % (2 * RadUnit)) * Pi) \div RadUnit) \div i - Pi \div i

\* MapXYToLatLon(x, y, lambda_0): lat is phif plus terms in x**2, ..., x**8,
\* lon is lambda_0 plus terms in x, x**3, x**5, x**7; both are wrapped.
MapXYToLatLon(x, y, lambda_0) ==
    LET phif == FootpointLatitude(y) IN
    CASE x = 0 -> <<wrap(phif, 2), wrap(lambda_0, 1)>>

\* UTMXYToLatLon(x, y, zone, south)
UTMXYToLatLon(x, y, zone, south) ==
    LET x_ == over_scale(x - (UTM_MAX_VAL \div 20) * 1000)
        y_ == over_scale(IF south THEN y - UTM_MAX_VAL * 1000 ELSE y) IN
    MapXYToLatLon(x_, y_, radians(zone * 6 - 183))

-----------------------------------------------------------------------------
(* Specification SpecGeo: a point on the equator and on the central        *)
(* meridian of its zone is converted to UTM and back.                      *)

Zones == 1..60

InitGeo ==
    /\ pc = "latlon"
    /\ \E zone \in Zones :
        geodetic = [lat |-> 0, lon |-> radians(zone * 6 - 183), zone |-> zone,
                    utm |-> NoOffset, back |-> << >>]
    /\ impl = "none"
    /\ neighbor_order = NoOrder
    /\ density = EmptyMap
    /\ ground = EmptyMap
    /\ canopy = EmptyMap
    /\ filtered_density = EmptyMap
    /\ keyorder = << >>
    /\ ingested = << >>
    /\ trees = EmptyMap
    /\ count = 0
    /\ components_counted_at = None
    /\ components_map = EmptyMap
    /\ smoothed = {}
    /\ cc_labels = EmptyMap
    /\ lastread = NoRead
    /\ unread = TRUE
    /\ CodecIdle
    /\ AnalysisIdle
    /\ SmoothIdle
    /\ writer_log = NoWriterLog
    /\ FilesIdle

\* utm = LatLonToUTMXY(lat, lon, zone)
ToUTM ==
    /\ pc = "latlon"
    /\ geodetic' = [geodetic EXCEPT
                        !.utm = LatLonToUTMXY(geodetic.lat, geodetic.lon, geodetic.zone)]
    /\ pc' = IF geodetic'.utm.raised = "" THEN "utm" ELSE "utm_raised"
    /\ UNCHANGED <<filevars, smoothvars, analysisvars, codecvars, mapvars>>

\* lat2, lon2 = UTMXYToLatLon(utm.x, utm.y, utm.zone, utm.south)
ToLatLon ==
    /\ pc = "utm"
    /\ LET utm == geodetic.utm.value IN
        geodetic' = [geodetic EXCEPT !.back = UTMXYToLatLon(utm[1], utm[2], utm[3], utm[4])]
    /\ pc' = "back"
    /\ UNCHANGED <<filevars, smoothvars, analysisvars, codecvars, mapvars>>

NextGeo == ToUTM \/ ToLatLon

SpecGeo == InitGeo /\ [][NextGeo]_vars

-----------------------------------------------------------------------------
(* src/forestutils.py: MapObj.__smooth_ground.  Its __problematic is the   *)
(* detect_issues of src/src/forestutils.py (3 > sum(...) fails where       *)
(* probs >= 3 holds), and its inner loop is the same.                      *)

ROOT_FOREST == "src/forestutils.py"

\* for _ in range(10)
root_smooth_passes == 10

\* The loop of __smooth_ground with `remaining` passes to go: the writes,
\* then prev = len(problematic), the new problematic set, and the test
\* len(problematic) / prev > 0.9, which divides by zero when the set was
\* empty.  The dict is written in place, so what a pass wrote stays when
\* the division raises.
RECURSIVE root_smooth_loop(_, _, _, _)
root_smooth_loop(ground_dict, problematic, written, remaining) ==
    IF remaining = 0
    THEN [raised |-> "", ground |-> ground_dict, problematic |-> problematic,
          written |-> written]
    ELSE LET smoother == smooth_pass(ground_dict, problematic)
             assigned == written \cup pass_writes(ground_dict, problematic)
             prev == Cardinality(problematic)
             next == detect_issues(smoother, problematic) IN
         IF prev = 0
         THEN [raised |-> "ZeroDivisionError", ground |-> smoother,
               problematic |-> next, written |-> assigned]
         ELSE IF 10 * Cardinality(next) > 9 * prev
         THEN [raised |-> "", ground |-> smoother, problematic |-> next,
               written |-> assigned]
         ELSE root_smooth_loop(smoother, next, assigned, remaining - 1)

root_smooth_ground(ground_dict) ==
    root_smooth_loop(ground_dict, detect_issues(ground_dict, DOMAIN ground_dict), {},
                     root_smooth_passes)

\* The value `problematic` takes in each pass of src/src smooth_ground, in
\* order, up to the pass smooth_loop is cut at; every later pass of the 100
\* gives the last of them again.
RECURSIVE smooth_trace(_, _, _)
smooth_trace(ground_dict, prior, remaining) ==
    IF remaining = 0 THEN << >>
    ELSE LET problematic == detect_issues(ground_dict, prior)
             smoother == smooth_pass(ground_dict, problematic) IN
         IF problematic = prior /\ smoother = ground_dict THEN <<problematic>>
         ELSE <<problematic>> \o smooth_trace(smoother, problematic, remaining - 1)

\* The value `problematic` takes at the end of each pass of
\* __smooth_ground, in order; the pass that divides by zero or breaks is
\* the last.
RECURSIVE root_smooth_trace(_, _, _)
root_smooth_trace(ground_dict, problematic, remaining) ==
    IF remaining = 0 THEN << >>
    ELSE LET smoother == smooth_pass(ground_dict, problematic)
             prev == Cardinality(problematic)
             next == detect_issues(smoother, problematic) IN
         IF prev = 0 \/ 10 * Cardinality(next) > 9 * prev THEN <<next>>
         ELSE <<next>> \o root_smooth_trace(smoother, next, remaining - 1)

\* What the loop of smooth_ground went through: the set `problematic` is
\* before the first pass, its value in each pass, and the number of passes
\* the loop started.  src/src/forestutils.py has no break: its loop starts
\* all of its passes.
smooth_history(version, ground_dict) ==
    IF version = ROOT_FOREST
    THEN LET first == detect_issues(ground_dict, DOMAIN ground_dict)
             trace == root_smooth_trace(ground_dict, first, root_smooth_passes) IN
         [start |-> first, trace |-> trace, passes |-> Len(trace)]
    ELSE [start |-> DOMAIN ground_dict,
          trace |-> smooth_trace(ground_dict, DOMAIN ground_dict, smooth_passes),
          passes |-> smooth_passes]

\* smooth_ground of either version, with the exception it ends with.
smooth_call(version, ground_dict) ==
    IF version = ROOT_FOREST THEN root_smooth_ground(ground_dict)
    ELSE LET r == smooth_ground(ground_dict) IN
         [raised |-> "", ground |-> r.ground, problematic |-> r.problematic,
          written |-> r.written]

-----------------------------------------------------------------------------
(* Specification SpecSmooth: the ground layer of a file with one point per *)
(* cell of a 4 x 3 grid is smoothed, and the result is smoothed again.     *)

\* The ground of the 4 x 3 grid, column x = 0..3, rows y = 0..2.
SmoothBase ==
    << <<6, 10, 20>>, <<2, 3, 10>>, <<2, 20, 8>>, <<6, 12, 0>> >>

\* The cells whose ground is varied, and the values they take instead.
SmoothVaried == {<<1, 1>>, <<2, 1>>, <<0, 0>>, <<3, 2>>, <<1, 0>>, <<2, 2>>, <<0, 2>>}

SmoothAlternatives == <<5, 30>>

SmoothKeys == {<<x, y>> : x \in 0..3, y \in 0..2}

SmoothKeyOrder == << <<0, 0>>, <<0, 1>>, <<0, 2>>, <<1, 0>>, <<1, 1>>, <<1, 2>>,
                     <<2, 0>>, <<2, 1>>, <<2, 2>>, <<3, 0>>, <<3, 1>>, <<3, 2>> >>

\* Every ground that keeps the base value (choice 0) or takes one of the
\* alternatives in each varied cell.
SmoothGrounds ==
    {[k \in SmoothKeys |->
        IF k \in SmoothVaried /\ alt[k] > 0 THEN SmoothAlternatives[alt[k]]
        ELSE SmoothBase[k[1] + 1][k[2] + 1]]
     : alt \in [SmoothVaried -> 0..Len(SmoothAlternatives)]}

SmoothFile(g) == [i \in 1..Len(SmoothKeyOrder) |-> PointIn(SmoothKeyOrder[i], g[SmoothKeyOrder[i]])]

\* The MapObj when the read loop of update_spatial has ended.
InitSmooth ==
    \E version \in {"forestutils", ROOT_FOREST} :
    \E g \in SmoothGrounds :
        /\ LET m == ingest_all(SmoothFile(g)) IN
            /\ density = m.density
            /\ ground = m.ground
            /\ canopy = m.canopy
            /\ filtered_density = m.filtered_density
            /\ keyorder = m.keyorder
        /\ ingested = SmoothFile(g)
        /\ impl = version
        /\ neighbor_order = NoOrder
        /\ pc = "smooth"
        /\ trees = EmptyMap
        /\ count = 0
        /\ components_counted_at = None
        /\ components_map = EmptyMap
        /\ smoothed = {}
        /\ cc_labels = EmptyMap
        /\ lastread = NoRead
        /\ unread = TRUE
        /\ CodecIdle
        /\ AnalysisIdle
        /\ SmoothIdle
        /\ GeoIdle
        /\ writer_log = NoWriterLog
        /\ FilesIdle

\* smooth_ground(self.ground), called on the ground it left the last time
\* when this is the second call.
SmoothCall ==
    /\ pc \in {"smooth", "smoothed"}
    /\ LET r == smooth_call(impl, ground)
           h == smooth_history(impl, ground) IN
        /\ ground' = r.ground
        /\ smoothed' = r.written
        /\ smooth_run' = [calls |-> smooth_run.calls + 1, raised |-> r.raised,
                          problematic |-> IF smooth_run.calls = 0 THEN r.problematic
                                          ELSE smooth_run.problematic,
                          before |-> ground,
                          passes |-> h.passes, start |-> h.start, trace |-> h.trace,
                          detected |-> smooth_run.detected]
        /\ pc' = IF r.raised # "" THEN "smooth_raised"
                 ELSE IF pc = "smooth" THEN "smoothed" ELSE "smoothed_again"
    /\ UNCHANGED <<filevars, geovars, analysisvars, codecvars, memovars, density, canopy, filtered_density,
                   keyorder, trees, impl, neighbor_order, ingested, cc_labels>>

\* detect_issues(ground_dict, set(ground_dict)) / self.__problematic(): the
\* call that opens smooth_ground, on its own.
DetectIssues ==
    /\ pc = "smooth"
    /\ smooth_run' = [smooth_run EXCEPT !.detected = detect_issues(ground, DOMAIN ground)]
    /\ pc' = "detected"
    /\ UNCHANGED <<filevars, geovars, analysisvars, codecvars, mapvars>>

NextSmooth == SmoothCall \/ DetectIssues

SpecSmooth == InitSmooth /\ [][NextSmooth]_vars

-----------------------------------------------------------------------------
(* Claims about the first pass (SpecGrid).                                 *)

\* The point p lies in the cell with key c: c = (floor(x/cellsize), floor(y/cellsize)),
\* stated by the defining inequalities of floor.
InCell(p, c) ==
    /\ c[1] * cellsize <= p.x /\ p.x < (c[1] + 1) * cellsize
    /\ c[2] * cellsize <= p.y /\ p.y < (c[2] + 1) * cellsize

PointsAt(c) == {i \in 1..Len(ingested) : InCell(ingested[i], c)}

HeightsAt(c) == {ingested[i].z : i \in PointsAt(c)}

AllKeys == (-3..3) \X (-3..3)

\* C2: after any sequence of ingest_spatial calls on an empty grid, before any
\* smoothing, every touched cell has ground[cell] <= canopy[cell].
C2_GroundBelowCanopy ==
    pc = "read" => \A c \in DOMAIN density : ground[c] <= canopy[c]

\* A cell has been touched by three points and spans two heights.
C2_Witness ==
    /\ pc = "read"
    /\ \E c \in DOMAIN density : density[c] >= 3 /\ ground[c] < canopy[c]

\* C4: after ingesting P into an empty grid, a key c is present iff some point
\* of P falls in cell c; density[c] is the number of those points, ground[c]
\* their minimum z and canopy[c] their maximum z.
C4_CellAggregates ==
    pc = "read" =>
        /\ DOMAIN density \subseteq AllKeys
        /\ DOMAIN ground = DOMAIN density
        /\ DOMAIN canopy = DOMAIN density
        /\ \A c \in AllKeys :
            /\ c \in DOMAIN density <=> PointsAt(c) # {}
            /\ c \in DOMAIN density =>
                /\ density[c] = Cardinality(PointsAt(c))
                /\ ground[c] = SetMin(HeightsAt(c))
                /\ canopy[c] = SetMax(HeightsAt(c))

\* Points with negative coordinates were read, and a cell holds a point
\* strictly between its lowest and its highest.
C4_Witness ==
    /\ pc = "read"
    /\ \E c \in DOMAIN density :
        /\ c[1] < 0
        /\ density[c] >= 3
        /\ \E i \in PointsAt(c) : ground[c] < ingested[i].z /\ ingested[i].z < canopy[c]

\* C5: ingesting any permutation of the points read so far into an empty grid
\* gives the same density, ground and canopy maps.
C5_OrderIndependent ==
    pc = "read" =>
        \A perm \in Permutations(1..Len(ingested)) :
            LET m == ingest_all([i \in 1..Len(ingested) |-> ingested[perm[i]]]) IN
            /\ m.density = density
            /\ m.ground = ground
            /\ m.canopy = canopy

\* Three points of one cell were read with the highest first and the lowest last.
C5_Witness ==
    /\ pc = "read"
    /\ Len(ingested) >= 3
    /\ \E i, j, k \in 1..Len(ingested) :
        /\ i < j /\ j < k
        /\ coords(ingested[i]) = coords(ingested[j])
        /\ coords(ingested[j]) = coords(ingested[k])
        /\ ingested[i].z > ingested[j].z /\ ingested[j].z > ingested[k].z

-----------------------------------------------------------------------------
(* Claims about smoothing and labeling (SpecMap).                          *)

\* The fine cells that pass the slicedepth test on the grid as it is now.
QualifyingFine == {k \in DOMAIN density : canopy[k] - ground[k] > slicedepth}

\* The qualifying CoarseCells of forestutils.py and of forest-utils.py.
QualifyingCoarse == {cc_key(k) : k \in QualifyingFine}

V0QualifyingCoarse ==
    {v0_cc_key(k) : k \in {f \in DOMAIN density : canopy[f] - ground[f] > SLICE_DEPTH}}

\* Two distinct keys that differ by at most 1 in each coordinate.
Adjacent8(a, b) ==
    /\ a # b
    /\ Abs(a[1] - b[1]) <= 1
    /\ Abs(a[2] - b[2]) <= 1

\* The cells of S linked to a cell of R by a chain of pairwise adjacent cells of S.
RECURSIVE Grow(_, _)
Grow(S, R) ==
    LET R2 == R \cup {x \in S : \E r \in R : Adjacent8(x, r)} IN
    IF R2 = R THEN R ELSE Grow(S, R2)

Linked(S, a, b) == b \in Grow(S, {a})

\* The tree ids of the map MapObj._tree_components returned, and of the map
\* the last read of forest-utils.py's `trees` returned.
TreeIds == {trees[s] : s \in DOMAIN trees}

V0TreeIds == {lastread.map[k] : k \in DOMAIN lastread.map}

\* C3 as claimed: ground[cell] <= canopy[cell] for every cell with density > 0
\* in every reachable state, the states after smooth_ground included.
C3_GroundBelowCanopyAlways ==
    \A c \in DOMAIN density : density[c] > 0 => ground[c] <= canopy[c]

\* C3 as amended: ground[cell] <= canopy[cell] for every cell with density > 0
\* whose ground smooth_ground has not assigned, in every reachable state.
C3_GroundBelowCanopyUnlessSmoothed ==
    \A c \in DOMAIN density :
        density[c] > 0 /\ c \notin smoothed => ground[c] <= canopy[c]

\* smooth_ground has replaced the ground of a cell and left others alone.
C3_Witness ==
    /\ pc \in {"label", "done"}
    /\ smoothed # {}
    /\ \E c \in smoothed : ground[c] > canopy[c]
    /\ \E c \in DOMAIN density \ smoothed : ground[c] <= canopy[c]

\* C6 as claimed: in the map compute returns, two qualifying CoarseCells that
\* are 8-adjacent have the same tree id.
C6_AdjacentCellsShareId ==
    /\ pc = "done" =>
        \A s, t \in DOMAIN trees :
            Adjacent8(cc_key(s), cc_key(t)) => trees[s] = trees[t]
    /\ lastread.read =>
        \A a, b \in DOMAIN lastread.map :
            Adjacent8(a, b) => lastread.map[a] = lastread.map[b]

\* C7: two CoarseCells have the same tree id only if a chain of pairwise
\* 8-adjacent qualifying CoarseCells links them.
C7_SameIdOnlyIfLinked ==
    /\ pc = "done" =>
        \A s, t \in DOMAIN trees :
            trees[s] = trees[t] => Linked(QualifyingCoarse, cc_key(s), cc_key(t))
    /\ lastread.read =>
        \A a, b \in DOMAIN lastread.map :
            lastread.map[a] = lastread.map[b] => Linked(V0QualifyingCoarse, a, b)

\* Two CoarseCells were merged into one tree and a third cell is another tree.
C7_Witness ==
    /\ pc = "done"
    /\ \E s, t, u \in DOMAIN trees :
        /\ cc_key(s) # cc_key(t)
        /\ trees[s] = trees[t]
        /\ trees[u] # trees[s]

\* C8 as claimed: the tree ids in the returned map are exactly 0..N-1, N the
\* number of distinct ids.
C8_IdsAreDense ==
    /\ pc = "done" => TreeIds = 0..(Cardinality(TreeIds) - 1)
    /\ lastread.read => V0TreeIds = 0..(Cardinality(V0TreeIds) - 1)

\* C8 as amended: the ids MapObj._tree_components of forestutils.py returns
\* are labels of the initial enumeration, in 0..M-1 for M qualifying
\* CoarseCells, and are not compacted; the ids of forest-utils.py's
\* _tree_components are exactly 0..N-1.
C8_IdsWithinEnumeration ==
    /\ pc = "done" => TreeIds \subseteq 0..(Cardinality(QualifyingCoarse) - 1)
    /\ lastread.read => V0TreeIds = 0..(Cardinality(V0TreeIds) - 1)

\* forest-utils.py labelled three CoarseCells as two trees.
C8_Witness ==
    /\ lastread.read
    /\ Cardinality(DOMAIN lastread.map) >= 3
    /\ Cardinality(V0TreeIds) = 2

-----------------------------------------------------------------------------
(* Claims about the memoised component map (SpecMemo).                     *)

\* C10: a read of `trees` returns what a fresh labeling of the grid as it is
\* at that read returns; it recomputes exactly when a point was added since
\* the last read (or nothing was read before).
C10_ReadsAreFresh ==
    (lastread.read /\ ~unread) =>
        /\ lastread.map = v0_tree_components(CurrentGrid, neighbor_order)
        /\ lastread.recomputed <=> lastread.unread

\* A read that followed a read with no update in between, on a grid with a tree.
C10_Witness ==
    /\ lastread.read
    /\ ~unread
    /\ ~lastread.recomputed
    /\ DOMAIN lastread.map # {}
    /\ count >= 3

-----------------------------------------------------------------------------
(* Claims about the codec (SpecCodec).                                     *)

\* The point p with its position cut to float32 and its colours as they are.
AsStored(p) == <<to_float32(p[1]), to_float32(p[2]), to_float32(p[3]), p[4], p[5], p[6]>>

\* C1 as claimed: write(cloud, fname) followed by read(fname) completes and
\* yields as many points as cloud holds, in the same order, each with its
\* position cut to float32 and its colour bytes unchanged.
C1_RoundTrip ==
    writer_log.raised = "" =>
        /\ pc # "write_raised"
        /\ pc = "read_back" =>
            /\ readback.raised = ""
            /\ readback.points = [i \in 1..Len(cloud) |-> AsStored(cloud[i])]

\* A writer object exists or existed: __init__ returned.
WriterCreated == writer.max_size > 0

\* The file that holds the records of the appended points behind a header
\* that counts them.
HoldsAppends(file) ==
    /\ file.exists
    /\ \E i \in DOMAIN file.head :
        file.head[i] = <<"element", "vertex", Len(writer_log.appended)>>
    /\ \A i \in DOMAIN file.head :
        (Len(file.head[i]) = 3 /\ file.head[i][1] = "element")
            => file.head[i][3] = Len(writer_log.appended)
    /\ file.body = [i \in 1..Len(writer_log.appended) |-> AsStored(writer_log.appended[i])]

\* C14: when a writer is finalized, the `element vertex` count of the
\* emitted header equals the number of append calls made on the writer and
\* the file body holds exactly those records in append order, for any
\* number of appends, zero and more than fit in the in-memory buffer
\* included.
C14_FinalizedFileHoldsAppends ==
    (WriterCreated /\ writer_log.begun = 1 /\ writer_log.completed = 1) => HoldsAppends(disk)

\* Two appends overflowed the buffer and the writer has been finalized.
C14_Witness ==
    /\ writer_log.begun = 1
    /\ writer_log.completed = 1
    /\ writer.rolled
    /\ Len(writer_log.appended) = 2
    /\ Len(disk.body) = 2

\* C15 as claimed: for every incremental writer that is created, the
\* destination file receives nothing before finalize, and finalize (header
\* plus buffered records flushed to the destination, buffer released) runs
\* exactly once on every exit path: when write() returns, when the
\* iterable or an append raises part-way, and when finalize is requested a
\* second time.
C15_FinalizedExactlyOnce ==
    WriterCreated =>
        /\ writer.alive => disk = NoFile
        /\ ~writer.alive =>
            /\ writer_log.begun = 1
            /\ writer_log.completed = 1
            /\ HoldsAppends(disk)
            /\ writer.temp_storage = << >>


-----------------------------------------------------------------------------
(* Claims about the analysis of the trees (SpecAnalysis).                  *)

\* The height of tree v: the maximum over its cells of canopy - ground.
TreeHeight(v) == SetMax({canopy[k] - ground[k] : k \in tree_keys(trees, v)})

RecordsOf(v) == {i \in DOMAIN tree_records : tree_records[i].id = v}

-----------------------------------------------------------------------------
(* Claims about repeated smoothing (SpecSmooth).                           *)

\* The cells of ground layer g with at least six distinct ground values
\* around them, three or more of which differ from their own by more than
\* 2 x cellsize.
SteepCells(g) ==
    {k \in DOMAIN g :
        LET around == {g[n] : n \in {n \in DOMAIN g : n # k /\ Abs(n[1] - k[1]) <= 1
                                                          /\ Abs(n[2] - k[2]) <= 1}} IN
        /\ Cardinality(around) >= 6
        /\ Cardinality({v \in around : Abs(g[k] - v) > 2 * cellsize}) >= 3}

\* C13 (as stated): if smooth returns with an empty problematic set,
\* invoking smooth again on the resulting ground layer completes normally
\* and changes no ground value.
C13_SmoothIdempotentAtConvergence ==
    (smooth_run.calls = 2 /\ smooth_run.problematic = {}) =>
        /\ smooth_run.raised = ""
        /\ ground = smooth_run.before

\* C13 (amended): if smooth returns and no cell of the resulting ground
\* layer is steep, invoking smooth again changes no ground value, and in
\* src/src/forestutils.py it completes normally.
C13_SmoothIdempotentWhenNoCellIsSteep ==
    (smooth_run.calls = 2 /\ SteepCells(smooth_run.before) = {}) =>
        /\ ground = smooth_run.before
        /\ impl = "forestutils" => smooth_run.raised = ""

\* The first call changed the ground and left no steep cell; the second
\* call has been made.
C13_Witness ==
    /\ smooth_run.calls = 2
    /\ SteepCells(smooth_run.before) = {}
    /\ smooth_run.before # ingest_all(ingested).ground
    /\ smooth_run.raised = ""

\* The populated grid neighbours of cell k, and those of them whose ground
\* differs from the ground of k by more than 2 x cellsize.
PopulatedNeighbours(g, k) == Range(neighbors(k)) \cap DOMAIN g

SteepNeighbours(g, k) ==
    {n \in PopulatedNeighbours(g, k) : Abs(g[k] - g[n]) > 2 * cellsize}

\* C23 as claimed: detect_issues flags a candidate cell k exactly when at
\* least 6 of the 8 grid neighbours of k are populated and at least 3 of
\* those neighbour cells have a ground value that differs from ground[k]
\* by more than 2 x cellsize, counted per neighbour cell.
C23_FlaggedBySteepNeighbourCells ==
    pc = "detected" =>
        smooth_run.detected =
            {k \in DOMAIN ground :
                /\ Cardinality(PopulatedNeighbours(ground, k)) >= 6
                /\ Cardinality(SteepNeighbours(ground, k)) >= 3}

\* C24 as claimed: smooth always terminates and returns normally (never
\* raises) after at most 10 passes, for every grid, also when the
\* problematic set is empty at the start or becomes empty on the way.
C24_SmoothReturnsWithinTenPasses ==
    smooth_run.calls >= 1 =>
        /\ smooth_run.raised = ""
        /\ smooth_run.passes <= 10

\* The problematic set is empty or below 10% of its size at the start.
Converged(problematic) ==
    problematic = {} \/ 10 * Cardinality(problematic) < Cardinality(smooth_run.start)

\* The passes at whose end the set `problematic` has converged; pass 0 is
\* the start of smoothing.
ConvergedPasses ==
    {i \in 0..Len(smooth_run.trace) :
        Converged(IF i = 0 THEN smooth_run.start ELSE smooth_run.trace[i])}

\* C25 as claimed: smooth stops before reaching the pass cap as soon as the
\* problematic set is empty or has shrunk below 10% of the size it had at
\* the start of smoothing, and keeps iterating (up to the cap) while
\* neither holds: the number of passes made is that of the first pass
\* that ends converged, and the cap when there is none.
C25_StopsAtConvergence ==
    smooth_run.calls >= 1 =>
        /\ smooth_run.raised = ""
        /\ smooth_run.passes =
                IF ConvergedPasses # {} THEN SetMin(ConvergedPasses) ELSE root_smooth_passes

\* C30: smooth changes nothing but ground values of cells that are in the
\* problematic set of the pass in which they are written: the key sets of
\* ground, density and canopy, every density and canopy value, and the
\* ground value of every cell that is never flagged problematic are the
\* same after smooth as before it.
C30_SmoothFrame ==
    smooth_run.calls >= 1 =>
        LET first == ingest_all(ingested)
            flagged == smooth_run.start \cup UNION Range(smooth_run.trace)
            during == UNION Range(smooth_run.trace) IN
        /\ DOMAIN ground = DOMAIN smooth_run.before
        /\ DOMAIN smooth_run.before = DOMAIN first.ground
        /\ density = first.density
        /\ canopy = first.canopy
        /\ \A k \in DOMAIN ground :
                ground[k] # smooth_run.before[k] =>
                    /\ k \in smoothed
                    /\ \E i \in DOMAIN smooth_run.trace :
                            k \in (IF impl = ROOT_FOREST /\ i > 1 THEN smooth_run.trace[i - 1]
                                   ELSE IF impl = ROOT_FOREST THEN smooth_run.start
                                   ELSE smooth_run.trace[i])

\* A call of smooth has rewritten the ground of a cell and left the ground
\* of a cell beside it, which no pass flagged, as it was.
C30_Witness ==
    /\ smooth_run.calls = 1
    /\ \E k \in DOMAIN ground, n \in DOMAIN ground :
            /\ ground[k] # smooth_run.before[k]
            /\ n \in Range(neighbors(k))
            /\ n \notin smooth_run.start \cup UNION Range(smooth_run.trace)
            /\ ground[n] = smooth_run.before[n]

-----------------------------------------------------------------------------
(* Claims about multi-part reading and the offset lookup (SpecParts).      *)

\* The largest k such that parts 1, ..., k are all files.
Contiguous == CHOOSE k \in 0..MaxParts :
    /\ \A i \in 1..k : PartName(i) \in DOMAIN files.ply
    /\ k = MaxParts \/ PartName(k + 1) \notin DOMAIN files.ply

Colours(points) == [i \in DOMAIN points |-> SubSeq(points[i], 4, 6)]

RECURSIVE ColoursOfParts(_)
ColoursOfParts(k) ==
    IF k = 0 THEN << >> ELSE ColoursOfParts(k - 1) \o Colours(PointsOf(PartName(k)))

\* C16: read() on a file named <stem>_point_cloud_part_1.ply streams the
\* parts 1..k in increasing part number, k being the largest number such
\* that parts 1, ..., k all exist (the first missing number ends discovery
\* even if higher-numbered parts exist); the output is the concatenation
\* of the parts' points in file order, and a file of any other name is read
\* alone.  (Checked for src/src/pointcloudfile.py; the points are told
\* apart by their colour bytes, which no shift touches.)
C16_PartsReadInOrder ==
    (codec = SRC /\ pc = "read_back" /\ files.fname \in DOMAIN files.ply) =>
        /\ readback.raised = ""
        /\ Colours(readback.points) =
                IF files.fname = PartName(1) THEN ColoursOfParts(Contiguous)
                ELSE Colours(PointsOf(files.fname))

\* Parts 1 and 3 exist and part 2 does not: only part 1 has been read.
C16_Witness ==
    /\ codec = SRC
    /\ pc = "read_back"
    /\ files.fname = PartName(1)
    /\ {PartName(1), PartName(3)} \subseteq DOMAIN files.ply
    /\ PartName(2) \notin DOMAIN files.ply
    /\ Colours(readback.points) = Colours(PointsOf(PartName(1)))

\* The offset the lookup of the running version gives for part k.
OffsetOfPart(k) == offset_for(codec, files, PartName(k)).value

RECURSIVE PartsShiftedTo(_)
PartsShiftedTo(k) ==
    IF k = 0 THEN << >>
    ELSE PartsShiftedTo(k - 1)
         \o [i \in DOMAIN PointsOf(PartName(k)) |->
                [j \in 1..6 |->
                    IF j <= 3
                    THEN PointsOf(PartName(k))[i][j] + OffsetOfPart(k)[j] - OffsetOfPart(1)[j]
                    ELSE PointsOf(PartName(k))[i][j]]]

\* C17 as claimed: in a multi-part read, every point taken from part k is
\* yielded with x, y and z each shifted by exactly (offset of part k minus
\* offset of part 1) in that coordinate; the points of part 1 are yielded
\* unchanged.  (Stated for src/src/pointcloudfile.py, whose read returns.)
C17_ShiftedByOffsetDifference ==
    (codec = SRC /\ pc = "read_back" /\ files.fname = PartName(1) /\ readback.raised = "") =>
        readback.points = PartsShiftedTo(Contiguous)

RECURSIVE PartsWithAltitude(_)
PartsWithAltitude(k) ==
    IF k = 0 THEN << >>
    ELSE PartsWithAltitude(k - 1)
         \o [i \in DOMAIN PointsOf(PartName(k)) |->
                LET p == PointsOf(PartName(k))[i] IN
                <<p[1] + OffsetOfPart(k)[1] - OffsetOfPart(1)[1],
                  p[2] + OffsetOfPart(k)[2] - OffsetOfPart(1)[2],
                  p[3] + OffsetOfPart(k)[3],
                  p[4], p[5], p[6]>>]

\* C17 as amended: in a multi-part read of src/src/pointcloudfile.py every
\* point taken from part k is yielded with x and y shifted by exactly
\* (offset of part k minus offset of part 1) and with z shifted by the
\* altitude offset of part k itself; this holds of part 1 too, whose
\* points keep x and y and gain the altitude offset of part 1.
C17_ShiftedXYByDifferenceZByAltitude ==
    (codec = SRC /\ pc = "read_back" /\ files.fname = PartName(1) /\ readback.raised = "") =>
        readback.points = PartsWithAltitude(Contiguous)

\* Parts 1 and 2 have been read, their offsets differing by (10, 20, 0)
\* metres with an altitude offset of 5 metres: the points of part 2 come
\* out shifted by (10, 20, 5) metres and those of part 1 by (0, 0, 5).
C17_Witness ==
    /\ codec = SRC
    /\ pc = "read_back"
    /\ files.fname = PartName(1)
    /\ Contiguous = 2
    /\ readback.raised = ""
    /\ OffsetOfPart(1) = <<1000, 2000, 5000>>
    /\ OffsetOfPart(2) = <<11000, 22000, 5000>>
    /\ readback.points[1] = shifted(PointsOf(PartName(1))[1], <<0, 0, 5000>>)
    /\ readback.points[3] = shifted(PointsOf(PartName(2))[1], <<10000, 20000, 5000>>)

\* The offset a header comment of the file embeds, or NoneUtm.
EmbeddedIn(file) ==
    LET found == SelectSeq(file.head, LAMBDA l : Len(l) >= 2 /\ l[1] = "comment" /\ l[2] = "UTM") IN
    IF found = << >> THEN NoneUtm
    ELSE <<found[1][Len(found[1]) - 3], found[1][Len(found[1]) - 2]>>

\* C18 as claimed: the offset looked up for a file is the one embedded in
\* its header comment whenever such a comment is present, even if a
\* <stem>_ply_offset.xyz file also exists; the offset file is used only
\* when no offset is embedded, and the offset is (0, 0, 0) when neither
\* exists.  (Stated for src/src/pointcloudfile.py, whose lookup returns.)
C18_EmbeddedOffsetFirst ==
    (codec = SRC /\ pc = "looked_up" /\ files.fname \in DOMAIN files.ply) =>
        /\ offset.raised = ""
        /\ LET embedded == EmbeddedIn(files.ply[files.fname]) IN
            IF embedded # NoneUtm
            THEN SubSeq(offset.value, 1, 2) = embedded
            ELSE IF files.fname \in DOMAIN files.xyz
            THEN offset.value = files.xyz[files.fname]
            ELSE offset.value = <<0, 0, 0>>

\* C19 as claimed: a UTM offset given to write() is embedded in the
\* written header as a comment the offset lookup recognises: with no
\* offset file present, looking up the offset of the written file returns
\* the easting and northing that were given to the writer.
C19_WrittenOffsetIsLookedUp ==
    (pc = "looked_up" /\ disk.exists /\ utm_coords # NoneUtm) =>
        /\ offset.raised = ""
        /\ SubSeq(offset.value, 1, 2) = SubSeq(utm_coords, 1, 2)

\* C20 as claimed: after save_sparse_cloud with its default flags, for
\* every occupied cell of the grid (as it is when the sparse cloud is
\* written, that is after smoothing) at least one input point of that cell
\* is present in the sparse output, even when every point of the cell is
\* classified as ground.
C20_SparseKeepsEveryCell ==
    (pc = "sparse" /\ sparse.written) =>
        \A cell \in DOMAIN density :
            \E i \in DOMAIN sparse.points : coords(sparse.points[i]) = cell

-----------------------------------------------------------------------------
(* Claims on the header of a stored file.                                  *)

\* The property names the header of the file on disk declares.
DeclaredNames ==
    {disk.head[i][3] : i \in {j \in DOMAIN disk.head : disk.head[j][1] = "property"}}

DeclaredTypes ==
    {disk.head[i][2] : i \in {j \in DOMAIN disk.head : disk.head[j][1] = "property"}}

\* C21: read() of a file whose header declares no x, no y or no z property
\* fails with an error that ends the read and yields no point.  In
\* src/src/pointcloudfile.py the error is the ValueError of
\* parse_ply_header, unless a declared type is unknown as well, which
\* raises KeyError first.
C21_MissingXYZFails ==
    (pc = "read_back" /\ ~({"x", "y", "z"} \subseteq DeclaredNames)) =>
        /\ readback.raised # ""
        /\ readback.points = << >>
        /\ (codec = SRC /\ DeclaredTypes \subseteq DOMAIN PLY_TYPES) =>
                readback.raised = "ValueError"

\* A file of two vertices that declares x, z and the colours but no y has
\* been read by src/src/pointcloudfile.py.
C21_Witness ==
    /\ pc = "read_back"
    /\ codec = SRC
    /\ DeclaredNames = {"x", "z", "red", "green", "blue"}
    /\ Len(disk.body) = 2
    /\ readback.raised = "ValueError"
    /\ readback.points = << >>

-----------------------------------------------------------------------------
(* Claims on the colour pass and on the per-tree files.                    *)

\* The positions in the file update_colours has read of the points of
\* `cell` that are not classified as ground.
CanopyPointsOf(cell) ==
    {i \in DOMAIN current_file :
        coords(current_file[i]) = cell /\ ~is_ground(ground, current_file[i])}

\* The vertex attributes of the file that are not x, y or z.
Channels == UNION {DOMAIN p_cols(current_file[i]) : i \in DOMAIN current_file}

ChannelSumOf(cell, channel) ==
    Sum([i \in CanopyPointsOf(cell) |-> current_file[i][channel]], CanopyPointsOf(cell))

\* The sums update_colours has for a cell; a cell with no entry has none
\* accumulated.
AccumulatedSum(cell, channel) ==
    IF cell \in DOMAIN colours THEN colours[cell][channel] ELSE 0

\* The channel sums of every cell are the sums over its points that are
\* not classified as ground.
ColourSumsAreCanopySums ==
    pc = "coloured" =>
        \A cell \in DOMAIN density :
            /\ \A channel \in Channels :
                    AccumulatedSum(cell, channel) = ChannelSumOf(cell, channel)
            /\ (cell \in DOMAIN colours <=> CanopyPointsOf(cell) # {})

\* C26: after the colour pass, for every cell and channel the accumulated
\* channel sum is the sum of the channel over the points of the cell that
\* are not classified as ground, and the filtered density of the cell is
\* the number of those points.
C26_ColourPassCountsCanopyPoints ==
    pc = "coloured" =>
        \A cell \in DOMAIN density :
            /\ \A channel \in Channels :
                    AccumulatedSum(cell, channel) = ChannelSumOf(cell, channel)
            /\ filtered_density[cell] = Cardinality(CanopyPointsOf(cell))

\* What the code keeps instead: the filtered density is one more than the
\* number of points of the cell that are not classified as ground.
FilteredDensityIsOneMore ==
    pc = "coloured" =>
        \A cell \in DOMAIN density :
            filtered_density[cell] = 1 + Cardinality(CanopyPointsOf(cell))

RECURSIVE Product(_, _)
Product(f, S) ==
    IF S = {} THEN 1 ELSE LET k == CHOOSE k \in S : TRUE IN f[k] * Product(f, S \ {k})

\* The cells of a tree that have a filtered density other than zero.
ColouredCells(keys) == {k \in keys : filtered_density[k] # 0}

\* The quotient <<dividend, divisor>> is the mean over the cells `keys` of
\* channel_sum[cell] / filtered_density[cell], without dividing.
IsMeanOfCellMeans(quotient, keys, channel) ==
    quotient[1] * Cardinality(keys) * Product(filtered_density, keys)
        = quotient[2] * Sum([k \in keys |->
                                AccumulatedSum(k, channel) * Product(filtered_density, keys \ {k})],
                            keys)

\* C27: for every non-empty cell set of one tree, tree_data returns a
\* record without failing, and each reported channel mean is the mean, over
\* the cells of the tree with non-zero filtered density, of
\* channel_sum[cell] / filtered_density[cell].
C27_ColourIsMeanOverCells ==
    /\ pc # "analysis_raised"
    /\ pc = "analysed" =>
        \A i \in DOMAIN tree_records :
            LET keys == ColouredCells(tree_keys(trees, tree_records[i].id)) IN
            \A channel \in Channels :
                /\ channel \in DOMAIN tree_records[i].colour
                /\ IsMeanOfCellMeans(tree_records[i].colour[channel], keys, channel)

\* What tree_data reports: the quotient of one cell of the tree, the one
\* its loop visits last.
ColourIsOfOneCell ==
    pc = "analysed" =>
        \A i \in DOMAIN tree_records :
            \A channel \in Channels :
                \E k \in tree_keys(trees, tree_records[i].id) :
                    tree_records[i].colour[channel] = <<colours[k][channel], filtered_density[k]>>

\* After the colour pass tree_data fails on no tree: every cell of a tree
\* has a point above the slice depth, which is not classified as ground,
\* so the cell has its colour entry, and no filtered density is zero.
TreeDataDoesNotFail ==
    /\ pc # "analysis_raised"
    /\ pc \in {"coloured", "analysed"} =>
            /\ DOMAIN trees \subseteq DOMAIN colours
            /\ \A k \in DOMAIN density : filtered_density[k] # 0

-----------------------------------------------------------------------------
(* Claims on the recursion limit in the labeling.                          *)

\* Two labelings group the CoarseCells the same way.
SameGrouping(a, b) ==
    /\ DOMAIN a = DOMAIN b
    /\ \A j, k \in DOMAIN a : (a[j] = a[k]) <=> (b[j] = b[k])

\* The labeling with the limit LowRecursionLimit ended the expand of at
\* least one key with RecursionError.
CutShort == coarse_labels_within(CurrentGrid, LowRecursionLimit).deferred # {}

\* C28: a recursion limit hit during the labeling does not reach the
\* caller, and the labeling groups the CoarseCells as the labeling with a
\* recursion depth no expand reaches does (coarse_labels: the files of
\* SpecLabel stay far below RecursionLimit).
C28_LabelingAsWithUnboundedDepth ==
    /\ pc # "label_raised"
    /\ pc = "labelled" => SameGrouping(cc_labels, coarse_labels(CurrentGrid))

\* The RecursionError itself is caught for every key.
RecursionErrorIsCaught == pc # "label_raised"

\* A labeling that was cut short and still groups the cells as the
\* unbounded one.
CutShortAndSame ==
    /\ pc = "labelled"
    /\ CutShort
    /\ cc_labels = coarse_labels_within(CurrentGrid, LowRecursionLimit).com
    /\ SameGrouping(cc_labels, coarse_labels(CurrentGrid))

-----------------------------------------------------------------------------
(* Claims on the files of the single trees.                                *)

\* The points of the file read that stand in a cell of tree t.
PointsOfTree(t) ==
    SelectSeq(current_file, LAMBDA point :
                                /\ coords(point) \in DOMAIN trees
                                /\ trees[coords(point)] = t)

CanopyPointsOfTree(t) ==
    SelectSeq(PointsOfTree(t), LAMBDA point : ~is_ground(ground, point))

\* C29: save_individual_trees appends to the writer of tree id t exactly
\* the points of the input stream that are not classified as ground and
\* whose fine cell maps to t, in the order of the stream; so a point that is
\* classified as ground or stands in a cell with no tree id is in no tree
\* file and no point is in two.
C29_TreeFilesHoldCanopyPoints ==
    (pc = "trees_saved" /\ files # NoFiles) =>
        /\ DOMAIN files.ply = Range(trees)
        /\ \A t \in Range(trees) : files.ply[t] = CanopyPointsOfTree(t)

\* What the loop does: the writer of tree t is called with every point of
\* the cells of t, classified as ground or not; a point in a cell with no
\* tree id is in no file and no point is in two.
TreeFilesHoldAllPointsOfTheirCells ==
    (pc = "trees_saved" /\ files # NoFiles) =>
        /\ DOMAIN files.ply = Range(trees)
        /\ \A t \in Range(trees) : files.ply[t] = PointsOfTree(t)
        /\ \A t, u \in Range(trees) :
                t # u => Range(files.ply[t]) \cap Range(files.ply[u]) = {}

\* Two trees have their files, and each file holds a point classified as
\* ground.
TwoTreeFilesWritten ==
    /\ pc = "trees_saved"
    /\ files # NoFiles
    /\ Cardinality(DOMAIN files.ply) = 2
    /\ \A t \in DOMAIN files.ply :
            \E i \in DOMAIN files.ply[t] : is_ground(ground, files.ply[t][i])

-----------------------------------------------------------------------------
(* Claims on the conversion between geodetic and UTM coordinates.          *)

\* C22, for a point given by latitude and longitude, at the resolution of
\* the model: converting (lat, lon) to UTM in a zone and back returns a
\* latitude and a longitude that differ from the ones given by no more than
\* one unit of the model, 1/RadUnit radian.  (The claim allows 1e-10 rad,
\* which is less: a difference of more than a unit contradicts it.)
C22_LatLonRoundTrip ==
    pc = "back" =>
        /\ Abs(geodetic.back[1] - geodetic.lat) <= 1
        /\ Abs(geodetic.back[2] - geodetic.lon) <= 1

\* The conversion to UTM of these points is the false easting and a
\* northing of zero in the zone given, north of the equator.
EquatorMapsToFalseEasting ==
    pc \in {"utm", "back"} =>
        geodetic.utm = [raised |-> "", value |-> <<500000000, 0, geodetic.zone, FALSE>>]

=============================================================================
